---- MODULE Spec2Model ----
(***************************************************************************)
(* A model of the finalized-state storage layer of zebra-state             *)
(* (zebra_db/shielded.rs, zebra_db/chain.rs), of the chain-overlay reads   *)
(* (service/read/chain.rs) and of the disk-format round-trip harness       *)
(* (finalized_state/arbitrary.rs).                                         *)
(***************************************************************************)
EXTENDS Integers, Sequences, FiniteSets, TLC

(***************************************************************************)
(* Bounds of the model.                                                    *)
(***************************************************************************)
\* Highest block height a run commits (heights are 0..MaxHeight).
MaxHeight == 3
\* Number of leaves a note commitment tree holds before append fails.
TreeCapacity == 2

\* Option<T>: None, or Some(v).
None == << >>
Some(v) == <<v>>
IsSome(o) == Len(o) = 1
Unwrap(o) == o[1]

\* Result<T, E> (and a call that may panic): Ok(v), or a failure.
Ok(v) == [ok |-> TRUE, value |-> v]
Err == [ok |-> FALSE, value |-> << >>]

\* The unit value ().
Unit == "unit"

Pools == {"sprout", "sapling", "orchard"}

(***************************************************************************)
(* Value balances (zebra-chain/src/value_balance.rs).                      *)
(***************************************************************************)
ValueBalanceNew(t, sp, sa, o) ==
    [transparent |-> t, sprout |-> sp, sapling |-> sa, orchard |-> o]

\* Default for ValueBalance: every component is the zero amount.
ValueBalanceZero == ValueBalanceNew(0, 0, 0, 0)

\* Amount<NonNegative>: the constraint rejects a negative amount.
NonNegative(vb) ==
    /\ vb.transparent >= 0
    /\ vb.sprout >= 0
    /\ vb.sapling >= 0
    /\ vb.orchard >= 0

\* ValueBalance::add_block: the pool with the block's chain value pool change
\* added component by component; an error when the constraint rejects the sum.
AddBlock(value_pool, delta) ==
    LET sum == ValueBalanceNew(value_pool.transparent + delta.transparent,
                               value_pool.sprout + delta.sprout,
                               value_pool.sapling + delta.sapling,
                               value_pool.orchard + delta.orchard)
    IN IF NonNegative(sum) THEN Ok(sum) ELSE Err

(***************************************************************************)
(* Note commitment trees: the sequence of appended commitments.            *)
(***************************************************************************)
EmptyTree == << >>

\* NoteCommitmentTree::append: fails on a full tree.
TreeAppend(tree, cm) ==
    IF Len(tree) >= TreeCapacity THEN Err ELSE Ok(Append(tree, cm))

\* NoteCommitmentTree::root: a digest of the leaves (collision-free here).
Root(tree) == <<"root", tree>>

RECURSIVE AppendAll(_, _)
\* One `for ... { tree.append(cm)?; }` loop: the first error ends it.
AppendAll(tree, cms) ==
    IF cms = << >> THEN Ok(tree)
    ELSE LET appended == TreeAppend(tree, Head(cms))
         IN IF appended.ok THEN AppendAll(appended.value, Tail(cms)) ELSE Err

(***************************************************************************)
(* Blocks.  A shape fixes, per transaction, how many nullifiers it reveals *)
(* and how many note commitments it creates in each pool, the block's      *)
(* chain value pool change and whether its treestate carries a non-empty   *)
(* history tree.  A block is a shape at a height: its nullifiers and       *)
(* commitments are fresh values <<height, transaction, index>>.            *)
(***************************************************************************)
NoShielded == [sprout |-> 0, sapling |-> 0, orchard |-> 0]

TxShape(spends, outputs) == [spends |-> spends, outputs |-> outputs]

CoinbaseTx == TxShape(NoShielded, NoShielded)

Shapes ==
    { \* a coinbase-only block that mints one unit into the transparent pool
      [txs |-> <<CoinbaseTx>>,
       delta |-> ValueBalanceNew(1, 0, 0, 0), history |-> FALSE],
      \* a block that shields one unit into sprout
      [txs |-> <<CoinbaseTx,
                 TxShape([NoShielded EXCEPT !.sprout = 1],
                         [NoShielded EXCEPT !.sprout = 1])>>,
       delta |-> ValueBalanceNew(-1, 1, 0, 0), history |-> FALSE],
      \* a sapling block (Heartwood onwards: it has a history tree)
      [txs |-> <<TxShape([NoShielded EXCEPT !.sapling = 1],
                         [NoShielded EXCEPT !.sapling = 2])>>,
       delta |-> ValueBalanceNew(0, 0, 1, 0), history |-> TRUE],
      \* an orchard block that takes one unit out of the orchard pool
      [txs |-> <<TxShape([NoShielded EXCEPT !.orchard = 1],
                         [NoShielded EXCEPT !.orchard = 1])>>,
       delta |-> ValueBalanceNew(1, 0, 0, -1), history |-> TRUE],
      \* two shielded transactions: the first reveals nullifiers in every
      \* pool, the second creates two sprout commitments and one orchard one
      [txs |-> <<TxShape([sprout |-> 1, sapling |-> 1, orchard |-> 1],
                         NoShielded),
                 TxShape(NoShielded,
                         [sprout |-> 2, sapling |-> 0, orchard |-> 1])>>,
       delta |-> ValueBalanceNew(0, 0, 0, 1), history |-> TRUE] }

Fresh(height, t, n) == [k \in 1..n |-> <<height, t, k>>]

\* block::Hash of the block `branch` has at `height`; the chain the finalized
\* state is fed directly is branch 0.
BlockHash(branch, height) == height * 10 + branch

\* A transaction: the nullifiers it reveals and the note commitments it
\* creates per pool, the anchors it refers to, the outpoints it spends and
\* the outpoints it creates.
MakeTx(height, t, shape) ==
    [nullifiers |-> [p \in Pools |-> Fresh(height, t, shape.spends[p])],
     note_commitments |-> [p \in Pools |-> Fresh(height, t, shape.outputs[p])],
     anchors |-> [p \in Pools |-> << >>],
     inputs |-> << >>,
     outputs |-> << >>]

\* The treestate's history tree: None when empty, else the tree built
\* through `height`.
MakeBlock(height, shape) ==
    [height |-> height,
     hash |-> BlockHash(0, height),
     previous_block_hash |-> BlockHash(0, height - 1),
     work |-> 1,
     header |-> <<"header", height>>,
     transactions |-> [t \in 1..Len(shape.txs) |-> MakeTx(height, t, shape.txs[t])],
     chain_value_pool_change |-> shape.delta,
     history_tree |-> IF shape.history THEN Some(height) ELSE None]

\* The genesis block: one coinbase transaction, no value, no history tree.
GenesisBlock ==
    MakeBlock(0, [txs |-> <<CoinbaseTx>>, delta |-> ValueBalanceZero,
                  history |-> FALSE])

(***************************************************************************)
(* The durable store: one function per column family, and write batches.   *)
(***************************************************************************)
ColumnFamilies ==
    {"block_by_height",
     "sprout_nullifiers", "sapling_nullifiers", "orchard_nullifiers",
     "sprout_anchors", "sapling_anchors", "orchard_anchors",
     "sprout_note_commitment_tree", "sapling_note_commitment_tree",
     "orchard_note_commitment_tree",
     "history_tree", "tip_chain_value_pool", "utxo_by_outpoint"}

EmptyCf == [k \in {} |-> Unit]

EmptyDb == [cf \in ColumnFamilies |-> EmptyCf]

NullifierCf(pool) == pool \o "_nullifiers"
AnchorCf(pool) == pool \o "_anchors"
TreeCf(pool) == pool \o "_note_commitment_tree"

\* ReadDisk::zs_get
ZsGet(database, cf, key) ==
    IF key \in DOMAIN database[cf] THEN Some(database[cf][key]) ELSE None

\* ReadDisk::zs_contains
ZsContains(database, cf, key) == key \in DOMAIN database[cf]

\* WriteDisk::zs_insert and zs_delete queue an operation on the batch.
ZsInsert(batch, cf, key, value) ==
    Append(batch, [op |-> "insert", cf |-> cf, key |-> key, value |-> value])

ZsDelete(batch, cf, key) ==
    Append(batch, [op |-> "delete", cf |-> cf, key |-> key, value |-> Unit])

ApplyOp(database, o) ==
    LET f == database[o.cf]
    IN IF o.op = "insert"
       THEN [database EXCEPT ![o.cf] =
               [k \in DOMAIN f \cup {o.key} |-> IF k = o.key THEN o.value ELSE f[k]]]
       ELSE [database EXCEPT ![o.cf] = [k \in DOMAIN f \ {o.key} |-> f[k]]]

RECURSIVE ApplyBatch(_, _)
\* DiskDb::write: the batch's operations, in order, as one atomic write.
ApplyBatch(database, batch) ==
    IF batch = << >> THEN database
    ELSE ApplyBatch(ApplyOp(database, Head(batch)), Tail(batch))

(***************************************************************************)
(* ZebraDb read accessors.                                                 *)
(***************************************************************************)
MaxOf(S) == CHOOSE x \in S : \A y \in S : y <= x

\* ZebraDb::finalized_tip_height: the highest height stored, if any.
FinalizedTipHeight(database) ==
    IF DOMAIN database["block_by_height"] = {} THEN None
    ELSE Some(MaxOf(DOMAIN database["block_by_height"]))

\* contains_sprout_nullifier / contains_sapling_nullifier /
\* contains_orchard_nullifier
ContainsNullifier(database, pool, nullifier) ==
    ZsContains(database, NullifierCf(pool), nullifier)

\* contains_sprout_anchor / contains_sapling_anchor / contains_orchard_anchor
ContainsAnchor(database, pool, anchor) ==
    ZsContains(database, AnchorCf(pool), anchor)

\* sprout_note_commitment_tree_by_anchor
SproutNoteCommitmentTreeByAnchor(database, anchor) ==
    ZsGet(database, AnchorCf("sprout"), anchor)

\* The second half of a tip-tree accessor: the lookup under the height that
\* was read, `expect`ing the entry to exist.
NoteCommitmentTreeAt(database, pool, height) ==
    IF ~IsSome(height) THEN Ok(EmptyTree)
    ELSE LET tree == ZsGet(database, TreeCf(pool), Unwrap(height))
         IN IF IsSome(tree) THEN Ok(Unwrap(tree)) ELSE Err

\* sprout_note_commitment_tree / sapling_note_commitment_tree /
\* orchard_note_commitment_tree, run with no write in between.
NoteCommitmentTree(database, pool) ==
    NoteCommitmentTreeAt(database, pool, FinalizedTipHeight(database))

\* note_commitment_trees: panics when one of the three accessors does.
NoteCommitmentTrees(database) ==
    IF \A p \in Pools : NoteCommitmentTree(database, p).ok
    THEN Ok([p \in Pools |-> NoteCommitmentTree(database, p).value])
    ELSE Err

\* The second half of history_tree: None stands for the empty default tree.
HistoryTreeAt(database, height) ==
    IF ~IsSome(height) THEN None
    ELSE ZsGet(database, "history_tree", Unwrap(height))

\* history_tree, run with no write in between.
HistoryTree(database) ==
    HistoryTreeAt(database, FinalizedTipHeight(database))

\* finalized_value_pool
FinalizedValuePool(database) ==
    LET stored == ZsGet(database, "tip_chain_value_pool", Unit)
    IN IF IsSome(stored) THEN Unwrap(stored) ELSE ValueBalanceZero

(***************************************************************************)
(* DiskWriteBatch: the prepare_*_batch methods.                            *)
(***************************************************************************)
\* Height - i: None below the genesis height.
HeightSub(height, i) == IF height - i >= 0 THEN Some(height - i) ELSE None

RECURSIVE InsertAll(_, _, _)
InsertAll(batch, cf, keys) ==
    IF keys = << >> THEN batch
    ELSE InsertAll(ZsInsert(batch, cf, Head(keys), Unit), cf, Tail(keys))

\* A variant that indexes the sapling nullifiers in the sprout column family.
PrepareNullifierBatchWrongPool(batch, transaction) ==
    LET b1 == InsertAll(batch, "sprout_nullifiers", transaction.nullifiers["sprout"])
        b2 == InsertAll(b1, "sprout_nullifiers", transaction.nullifiers["sapling"])
    IN InsertAll(b2, "orchard_nullifiers", transaction.nullifiers["orchard"])

\* prepare_nullifier_batch
PrepareNullifierBatch(batch, transaction) ==
    LET b1 == InsertAll(batch, "sprout_nullifiers", transaction.nullifiers["sprout"])
        b2 == InsertAll(b1, "sapling_nullifiers", transaction.nullifiers["sapling"])
    IN InsertAll(b2, "orchard_nullifiers", transaction.nullifiers["orchard"])

\* A variant that swallows an append error and keeps the trees as they were.
UpdateNoteCommitmentTreesIgnoreError(transaction, trees) ==
    LET sprout == AppendAll(trees["sprout"], transaction.note_commitments["sprout"])
        sapling == AppendAll(trees["sapling"], transaction.note_commitments["sapling"])
        orchard == AppendAll(trees["orchard"], transaction.note_commitments["orchard"])
    IN Ok([sprout |-> IF sprout.ok THEN sprout.value ELSE trees["sprout"],
           sapling |-> IF sapling.ok THEN sapling.value ELSE trees["sapling"],
           orchard |-> IF orchard.ok THEN orchard.value ELSE trees["orchard"]])

\* update_note_commitment_trees: the updated trees, or Err
UpdateNoteCommitmentTrees(transaction, trees) ==
    LET sprout == AppendAll(trees["sprout"], transaction.note_commitments["sprout"])
        sapling == AppendAll(trees["sapling"], transaction.note_commitments["sapling"])
        orchard == AppendAll(trees["orchard"], transaction.note_commitments["orchard"])
    IN IF sprout.ok /\ sapling.ok /\ orchard.ok
       THEN Ok([sprout |-> sprout.value, sapling |-> sapling.value,
                orchard |-> orchard.value])
       ELSE Err

\* A variant that leaves the previous height's entry in place.
PrepareHistoryBatchNoDelete(batch, finalized) ==
    IF IsSome(finalized.history_tree)
    THEN ZsInsert(batch, "history_tree", finalized.height,
                  Unwrap(finalized.history_tree))
    ELSE batch

\* prepare_history_batch
PrepareHistoryBatch(batch, finalized) ==
    LET height == finalized.height
        current_tip_height == HeightSub(height, 1)
        b1 == IF IsSome(current_tip_height)
              THEN ZsDelete(batch, "history_tree", Unwrap(current_tip_height))
              ELSE batch
    IN IF IsSome(finalized.history_tree)
       THEN ZsInsert(b1, "history_tree", height, Unwrap(finalized.history_tree))
       ELSE b1

\* The anchors and the three tree inserts of prepare_note_commitment_batch.
InsertAnchorsAndTrees(batch, height, trees) ==
    LET a1 == ZsInsert(batch, "sprout_anchors", Root(trees["sprout"]), trees["sprout"])
        a2 == ZsInsert(a1, "sapling_anchors", Root(trees["sapling"]), Unit)
        a3 == ZsInsert(a2, "orchard_anchors", Root(trees["orchard"]), Unit)
        i1 == ZsInsert(a3, "sprout_note_commitment_tree", height, trees["sprout"])
        i2 == ZsInsert(i1, "sapling_note_commitment_tree", height, trees["sapling"])
    IN ZsInsert(i2, "orchard_note_commitment_tree", height, trees["orchard"])

\* A variant that never deletes the previous height's trees.
PrepareNoteCommitmentBatchNoDelete(batch, finalized, trees) ==
    PrepareHistoryBatch(
        InsertAnchorsAndTrees(batch, finalized.height, trees),
        finalized)

\* A variant that deletes the previous trees after the inserts and under
\* the block's own height for orchard.
PrepareNoteCommitmentBatchDeleteNew(batch, finalized, trees) ==
    LET height == finalized.height
        i3 == InsertAnchorsAndTrees(batch, height, trees)
        current_tip_height == HeightSub(height, 1)
        d == IF IsSome(current_tip_height)
             THEN LET h == Unwrap(current_tip_height)
                  IN ZsDelete(ZsDelete(ZsDelete(i3,
                          "sprout_note_commitment_tree", h),
                          "sapling_note_commitment_tree", h),
                          "orchard_note_commitment_tree", height)
             ELSE i3
    IN PrepareHistoryBatch(d, finalized)

\* prepare_note_commitment_batch
PrepareNoteCommitmentBatch(batch, finalized, trees) ==
    LET height == finalized.height
        a1 == ZsInsert(batch, "sprout_anchors", Root(trees["sprout"]), trees["sprout"])
        a2 == ZsInsert(a1, "sapling_anchors", Root(trees["sapling"]), Unit)
        a3 == ZsInsert(a2, "orchard_anchors", Root(trees["orchard"]), Unit)
        current_tip_height == HeightSub(height, 1)
        d == IF IsSome(current_tip_height)
             THEN LET h == Unwrap(current_tip_height)
                  IN ZsDelete(ZsDelete(ZsDelete(a3,
                          "sprout_note_commitment_tree", h),
                          "sapling_note_commitment_tree", h),
                          "orchard_note_commitment_tree", h)
             ELSE a3
        i1 == ZsInsert(d, "sprout_note_commitment_tree", height, trees["sprout"])
        i2 == ZsInsert(i1, "sapling_note_commitment_tree", height, trees["sapling"])
        i3 == ZsInsert(i2, "orchard_note_commitment_tree", height, trees["orchard"])
    IN PrepareHistoryBatch(i3, finalized)

\* A variant that forgets the orchard tree.
PrepareGenesisNoteCommitmentTreeBatchNoOrchard(batch, finalized) ==
    LET height == finalized.height
        i1 == ZsInsert(batch, "sprout_note_commitment_tree", height, EmptyTree)
    IN ZsInsert(i1, "sapling_note_commitment_tree", height, EmptyTree)

\* prepare_genesis_note_commitment_tree_batch
PrepareGenesisNoteCommitmentTreeBatch(batch, finalized) ==
    LET height == finalized.height
        i1 == ZsInsert(batch, "sprout_note_commitment_tree", height, EmptyTree)
        i2 == ZsInsert(i1, "sapling_note_commitment_tree", height, EmptyTree)
    IN ZsInsert(i2, "orchard_note_commitment_tree", height, EmptyTree)

\* A variant that checks the new pool but stores the old one.
PrepareChainValuePoolsBatchOldPool(batch, finalized, value_pool) ==
    LET new_pool == AddBlock(value_pool, finalized.chain_value_pool_change)
    IN IF new_pool.ok
       THEN Ok(ZsInsert(batch, "tip_chain_value_pool", Unit, value_pool))
       ELSE Err

\* prepare_chain_value_pools_batch: the batch with the new pool queued, or Err
PrepareChainValuePoolsBatch(batch, finalized, value_pool) ==
    LET new_pool == AddBlock(value_pool, finalized.chain_value_pool_change)
    IN IF new_pool.ok
       THEN Ok(ZsInsert(batch, "tip_chain_value_pool", Unit, new_pool.value))
       ELSE Err

RECURSIVE DeleteAll(_, _, _)
DeleteAll(batch, cf, keys) ==
    IF keys = << >> THEN batch
    ELSE DeleteAll(ZsDelete(batch, cf, Head(keys)), cf, Tail(keys))

RECURSIVE PrepareTransparentBatch(_, _, _)
\* The UTXO set update: from transaction `t` on, the outputs each transaction
\* creates are inserted and the outpoints it spends deleted.
PrepareTransparentBatch(batch, transactions, t) ==
    IF t > Len(transactions) THEN batch
    ELSE PrepareTransparentBatch(
             DeleteAll(InsertAll(batch, "utxo_by_outpoint", transactions[t].outputs),
                       "utxo_by_outpoint", transactions[t].inputs),
             transactions, t + 1)

\* prepare_block_header_transactions_batch: the block under its height, and
\* the UTXO set update.
PrepareBlockHeaderTransactionsBatch(batch, finalized) ==
    PrepareTransparentBatch(
        ZsInsert(batch, "block_by_height", finalized.height, finalized),
        finalized.transactions, 1)

(***************************************************************************)
(* State.                                                                  *)
(***************************************************************************)
VARIABLES
    db,          \* the durable store: column family -> (key -> value)
    wpc,         \* the committing writer's position in write_block
    wfinalized,  \* the block being committed (the last one, when idle)
    wbatch,      \* the DiskWriteBatch under construction
    wtrees,      \* the note commitment trees being updated
    wpool,       \* the value pool read when the commit started
    wtx,         \* index of the next transaction to index
    wresult,     \* what the last write_block returned: "none", "ok", "err"
    wbefore,     \* the store as it was when the last commit started
    rpc,         \* a concurrent reader's position in a tip-tree accessor
    raccessor,   \* the accessor it runs: a pool's tree, or "history"
    rheight,     \* the finalized tip height it read
    rresult,     \* what the accessor returned
    rpre,        \* the store as it was when the reader read the tip height
    rpost,       \* the store as it was when the accessor returned
    chain,       \* the best non-finalized chain, if there is one
    query,       \* the latest read through service/read/chain.rs
    codec,       \* the latest run of the disk-format round-trip harness
    chain_set,   \* the non-finalized state: the set of candidate chains
    accepted,    \* the hashes of the blocks a commit request has accepted
    last,        \* the latest commit request and what it did
    text,        \* the latest parse or print of a transaction hash
    subsidy,     \* the latest evaluation of the block subsidy functions
    run,         \* a call of RuntimeRun::run: where it is and what it did
    getblock     \* the latest getblock call of the RPC server

writerVars == <<wpc, wfinalized, wbatch, wtrees, wpool, wtx, wresult, wbefore>>

readerVars == <<rpc, raccessor, rheight, rresult, rpre, rpost>>

\* The variables the finalized state's writer and readers leave alone.
\* The state service's own state.
serviceVars == <<chain_set, accepted, last>>

\* The state of the text, subsidy, runtime and RPC components.
toolVars == <<text, subsidy, run, getblock>>

restVars == <<chain, query, codec, serviceVars, toolVars>>

vars == <<db, writerVars, readerVars, restVars>>

EmptyTrees == [p \in Pools |-> EmptyTree]

InitFinalized ==
    /\ db = EmptyDb
    /\ wpc = "idle"
    /\ wfinalized = GenesisBlock
    /\ wbatch = << >>
    /\ wtrees = EmptyTrees
    /\ wpool = ValueBalanceZero
    /\ wtx = 1
    /\ wresult = "none"
    /\ wbefore = EmptyDb
    /\ rpc = "idle"
    /\ raccessor = "history"
    /\ rheight = None
    /\ rresult = Ok(None)
    /\ rpre = EmptyDb
    /\ rpost = EmptyDb

\* A read: the function called, its arguments (the chain, the store as it
\* was, the height) and what it returned.
NoQuery ==
    [kind |-> "none", chain |-> None, db |-> EmptyDb, height |-> 0,
     result |-> None]

\* A run of the round-trip harness: the function called, the value type,
\* the value passed and the value returned.
NoCodec == [kind |-> "none", type |-> "none", input |-> << >>, output |-> << >>]

\* A commit request: the block's hash, the result ("ok" or the error), the
\* chains and the store before it, the chains as commit_block left them
\* (before any finalization) and the blocks it finalized.
NoRequest ==
    [kind |-> "none", hash |-> 0, result |-> "none", chains_before |-> {}, db_before |-> EmptyDb,
     chains_committed |-> {}, finalized |-> << >>]

\* A parse or a print of a transaction hash: the string or the bytes given,
\* what from_str returned, and what Display and Debug wrote.
NoText ==
    [kind |-> "none", string |-> << >>, hash |-> << >>,
     parsed |-> [ok |-> FALSE, value |-> "none"],
     display |-> << >>, debug |-> << >>]

\* An evaluation of the subsidy functions: the network and height given and
\* what each function returned, or what a test's loop over heights found;
\* for block_subsidy alone, the build, and what it gave at this height and
\* at the height before, as amounts of any size; for is_subsidy_correct,
\* the block given and whether the call panicked or what it returned.
NoSubsidy ==
    [kind |-> "none", network |-> "none", height |-> 0, halving |-> 0,
     block_subsidy |-> 0, founders_reward |-> 0,
     funding_stream |-> [ECC |-> 0, ZF |-> 0, MG |-> 0], miner_subsidy |-> 0,
     heights |-> {}, total |-> [hi |-> 0, lo |-> 0],
     build |-> "none",
     wide |-> [overflow |-> FALSE, panic |-> FALSE,
               value |-> [hi |-> 0, lo |-> 0]],
     before |-> [overflow |-> FALSE, panic |-> FALSE,
                 value |-> [hi |-> 0, lo |-> 0]],
     block |-> [transactions |-> << >>],
     result |-> [panicked |-> FALSE, returned |-> [ok |-> TRUE,
                                                   value |-> "none"]]]

\* A getblock call: the height asked for, the state service's answer, and
\* whether the handler panicked or what it returned.
NoGetBlock ==
    [kind |-> "none", height |-> 0,
     response |-> [ok |-> FALSE, value |-> "none"],
     outcome |-> [panicked |-> FALSE,
                  returned |-> [ok |-> FALSE, value |-> "none"]]]

\* RuntimeRun::run before it is called: where it is, the platform, whether
\* the signal handlers are registered, the signals the process has received,
\* the branches of the select polled in this poll, the signals received
\* when this poll began and when it polled the shutdown future, what the
\* root future returns when it completes, the branch the select took, the
\* result of block_on, the signal taken, the process-wide shutting-down
\* flag, the runtime, the application shutdown requested, and the polls.
NoRun ==
    [pc |-> "idle", platform |-> "none", registered |-> FALSE,
     received |-> {}, polled |-> {}, at_poll_start |-> {},
     at_shutdown_poll |-> {}, root_output |-> "none", branch |-> "none",
     result |-> "none", taken |-> "none", shutting_down |-> FALSE,
     runtime |-> "running", shutdown |-> "none", polls |-> 0]

\* The finalized state alone: empty store, idle writer, nothing else running.
Init ==
    /\ InitFinalized
    /\ chain = None
    /\ query = NoQuery
    /\ codec = NoCodec
    /\ chain_set = {}
    /\ accepted = {}
    /\ last = NoRequest
    /\ text = NoText
    /\ subsidy = NoSubsidy
    /\ run = NoRun
    /\ getblock = NoGetBlock

(***************************************************************************)
(* The writer: ZebraDb::write_block and DiskWriteBatch::prepare_block_batch.*)
(* Blocks are committed one at a time, at the height after the tip.        *)
(***************************************************************************)
NextHeight(database) ==
    IF IsSome(FinalizedTipHeight(database))
    THEN Unwrap(FinalizedTipHeight(database)) + 1
    ELSE 0

\* write_block starts on the block after the tip: it reads the value pool
\* and moves on to `pc` with `batch` queued and `trees` in hand.
StartBatch(finalized, batch, trees, pc) ==
    /\ wpc = "idle"
    /\ finalized.height = NextHeight(db)
    /\ finalized.height <= MaxHeight
    /\ wfinalized' = finalized
    /\ wbefore' = db
    /\ wresult' = "none"
    /\ wtx' = 1
    /\ wpool' = FinalizedValuePool(db)
    /\ wbatch' = batch
    /\ wtrees' = trees
    /\ wpc' = pc
    /\ UNCHANGED <<db, readerVars, restVars>>

\* The genesis block: prepare_block_batch queues the block, prepare_genesis_batch
\* queues the empty trees, and prepare_block_batch returns early.
CommitGenesis ==
    /\ NextHeight(db) = 0
    /\ StartBatch(GenesisBlock,
                  PrepareGenesisNoteCommitmentTreeBatch(
                      PrepareBlockHeaderTransactionsBatch(<< >>, GenesisBlock),
                      GenesisBlock),
                  EmptyTrees, "write")

\* Any later block: the tip trees are read (a missing tree panics) and
\* prepare_block_batch queues the block.
CommitStart ==
    /\ NextHeight(db) > 0
    /\ \E shape \in Shapes :
         LET finalized == MakeBlock(NextHeight(db), shape)
             batch == PrepareBlockHeaderTransactionsBatch(<< >>, finalized)
         IN IF NoteCommitmentTrees(db).ok
            THEN StartBatch(finalized, batch, NoteCommitmentTrees(db).value,
                            "transactions")
            ELSE StartBatch(finalized, << >>, EmptyTrees, "panicked")

\* The batch is dropped and write_block returns the error.
FailBatch ==
    /\ wpc' = "idle"
    /\ wresult' = "err"
    /\ wbatch' = << >>
    /\ UNCHANGED <<db, wfinalized, wtrees, wpool, wtx, wbefore, readerVars, restVars>>

\* prepare_transaction_index_batch, one transaction of the block per step.
PrepareTransaction ==
    /\ wpc = "transactions"
    /\ LET transaction == wfinalized.transactions[wtx]
           updated == UpdateNoteCommitmentTrees(transaction, wtrees)
       IN IF updated.ok
          THEN /\ wbatch' = PrepareNullifierBatch(wbatch, transaction)
               /\ wtrees' = updated.value
               /\ wtx' = wtx + 1
               /\ wpc' = IF wtx = Len(wfinalized.transactions)
                         THEN "note_commitments" ELSE "transactions"
               /\ UNCHANGED <<db, wfinalized, wpool, wresult, wbefore, readerVars, restVars>>
          ELSE FailBatch

PrepareNoteCommitments ==
    /\ wpc = "note_commitments"
    /\ wbatch' = PrepareNoteCommitmentBatch(wbatch, wfinalized, wtrees)
    /\ wpc' = "value_pools"
    /\ UNCHANGED <<db, wfinalized, wtrees, wpool, wtx, wresult, wbefore, readerVars, restVars>>

PrepareValuePools ==
    /\ wpc = "value_pools"
    /\ LET prepared == PrepareChainValuePoolsBatch(wbatch, wfinalized, wpool)
       IN IF prepared.ok
          THEN /\ wbatch' = prepared.value
               /\ wpc' = "write"
               /\ UNCHANGED <<db, wfinalized, wtrees, wpool, wtx, wresult, wbefore, readerVars, restVars>>
          ELSE FailBatch

\* self.db.write(batch): the whole batch in one atomic write.
WriteBatch ==
    /\ wpc = "write"
    /\ db' = ApplyBatch(db, wbatch)
    /\ wbatch' = << >>
    /\ wpc' = "idle"
    /\ wresult' = "ok"
    /\ UNCHANGED <<wfinalized, wtrees, wpool, wtx, wbefore, readerVars, restVars>>

\* The finalized state with its single writer.
Next ==
    \/ CommitGenesis
    \/ CommitStart
    \/ PrepareTransaction
    \/ PrepareNoteCommitments
    \/ PrepareValuePools
    \/ WriteBatch

Spec == Init /\ [][Next]_vars

(***************************************************************************)
(* A reader running a tip-tree accessor while the writer commits.          *)
(***************************************************************************)
Accessors == Pools \cup {"history"}

\* The accessor's lookup under the height it read.
AccessorAt(database, accessor, height) ==
    IF accessor = "history"
    THEN Ok(HistoryTreeAt(database, height))
    ELSE NoteCommitmentTreeAt(database, accessor, height)

\* The accessor run against one state of the store.
Accessor(database, accessor) ==
    AccessorAt(database, accessor, FinalizedTipHeight(database))

\* self.finalized_tip_height()
ReadTipHeight ==
    /\ rpc \in {"idle", "returned"}
    /\ \E accessor \in Accessors : raccessor' = accessor
    /\ rheight' = FinalizedTipHeight(db)
    /\ rpre' = db
    /\ rpc' = "tip_read"
    /\ UNCHANGED <<db, writerVars, rresult, rpost, restVars>>

\* self.db.zs_get(cf, &height), and the accessor returns (or panics).
ReadLookup ==
    /\ rpc = "tip_read"
    /\ rresult' = AccessorAt(db, raccessor, rheight)
    /\ rpost' = db
    /\ rpc' = "returned"
    /\ UNCHANGED <<db, writerVars, raccessor, rheight, rpre, restVars>>

ConcurrentNext ==
    \/ CommitGenesis
    \/ CommitStart
    \/ PrepareTransaction
    \/ PrepareNoteCommitments
    \/ PrepareValuePools
    \/ WriteBatch
    \/ ReadTipHeight
    \/ ReadLookup

ConcurrentSpec == Init /\ [][ConcurrentNext]_vars

\* The commits whose write fell between the reader's two reads.
CommitsDuringRead == NextHeight(rpost) - NextHeight(rpre)

(***************************************************************************)
(* C1: a tip-tree accessor that runs while one block is committed returns  *)
(* the tree of the store before that commit or the tree of the store after *)
(* it: it never finds the entry under the height it read missing, and      *)
(* never returns a tree of neither state.                                  *)
(***************************************************************************)
C1_ReadSeesPreOrPostCommit ==
    (rpc = "returned" /\ CommitsDuringRead <= 1) =>
        /\ rresult.ok
        /\ \/ rresult = Accessor(rpre, raccessor)
           \/ rresult = Accessor(rpost, raccessor)

(***************************************************************************)
(* What the store should hold, from the blocks committed so far.           *)
(***************************************************************************)
TipHeight == FinalizedTipHeight(db)

\* The committed block at `height`.
BlockAt(database, height) == database["block_by_height"][height]

CommittedHeights(database) == DOMAIN database["block_by_height"]

RECURSIVE SeqToSet(_)
SeqToSet(seq) == IF seq = << >> THEN {} ELSE {Head(seq)} \cup SeqToSet(Tail(seq))

\* The nullifiers `finalized` reveals in `pool`.
BlockNullifiers(finalized, pool) ==
    UNION { SeqToSet(finalized.transactions[t].nullifiers[pool]) :
              t \in DOMAIN finalized.transactions }

\* The nullifiers revealed in `pool` by the committed blocks.
RevealedNullifiers(database, pool) ==
    UNION { BlockNullifiers(BlockAt(database, h), pool) :
              h \in CommittedHeights(database) }

RECURSIVE CommitmentCount(_, _, _)
\* The note commitments the first `n` transactions of `finalized` add to `pool`.
CommitmentCount(finalized, pool, n) ==
    IF n = 0 THEN 0
    ELSE Len(finalized.transactions[n].note_commitments[pool])
         + CommitmentCount(finalized, pool, n - 1)

\* Some pool's tip tree in `database` has no room for the block's commitments.
TreeOverflows(finalized, database) ==
    \E p \in Pools :
        Len(NoteCommitmentTree(database, p).value)
          + CommitmentCount(finalized, p, Len(finalized.transactions))
        > TreeCapacity

RECURSIVE PoolAfter(_, _)
\* Zero with the value pool change of the blocks at heights 1..height added
\* in order (the genesis block changes no pool).
PoolAfter(database, height) ==
    IF height <= 0 THEN ValueBalanceZero
    ELSE LET before == PoolAfter(database, height - 1)
             delta == BlockAt(database, height).chain_value_pool_change
         IN ValueBalanceNew(before.transparent + delta.transparent,
                            before.sprout + delta.sprout,
                            before.sapling + delta.sapling,
                            before.orchard + delta.orchard)

\* The block's value pool change drives a component of the pool negative.
PoolGoesNegative(finalized, database) ==
    LET pool == FinalizedValuePool(database)
        delta == finalized.chain_value_pool_change
    IN \/ pool.transparent + delta.transparent < 0
       \/ pool.sprout + delta.sprout < 0
       \/ pool.sapling + delta.sapling < 0
       \/ pool.orchard + delta.orchard < 0

\* write_block has returned from its latest commit attempt.
AttemptFinished == wpc = "idle" /\ wresult # "none"

(***************************************************************************)
(* C2: whenever the store has a finalized tip, each pool's tree namespace  *)
(* holds an entry under the tip height and the tip-tree accessors succeed  *)
(* (the writer never panics reading them); on the empty store each         *)
(* accessor returns the empty tree.                                        *)
(***************************************************************************)
C2_TipTreesExist ==
    /\ wpc # "panicked"
    /\ \A p \in Pools :
         IF IsSome(TipHeight)
         THEN /\ ZsContains(db, TreeCf(p), Unwrap(TipHeight))
              /\ NoteCommitmentTree(db, p).ok
              /\ NoteCommitmentTrees(db).ok
         ELSE NoteCommitmentTree(db, p) = Ok(EmptyTree)

\* Two blocks above genesis are committed and a non-empty tree is at the tip.
C2_Witness ==
    /\ IsSome(TipHeight)
    /\ Unwrap(TipHeight) >= 2
    /\ \A p \in Pools : NoteCommitmentTree(db, p).ok
    /\ \E p \in Pools : NoteCommitmentTree(db, p).value # EmptyTree

(***************************************************************************)
(* C3: only the latest tree per pool is retained: with tip height h each   *)
(* pool's tree namespace holds exactly one entry, keyed by h; the batch    *)
(* that commits height h > 0 holds the delete of h - 1 and the insert of h *)
(* for each pool.                                                          *)
(***************************************************************************)
BatchHas(batch, op, cf, key) ==
    \E i \in DOMAIN batch :
        batch[i].op = op /\ batch[i].cf = cf /\ batch[i].key = key

C3_OnlyLatestTreeRetained ==
    /\ IsSome(TipHeight) =>
         \A p \in Pools : DOMAIN db[TreeCf(p)] = {Unwrap(TipHeight)}
    /\ ~IsSome(TipHeight) => \A p \in Pools : DOMAIN db[TreeCf(p)] = {}
    /\ (wpc = "write" /\ wfinalized.height > 0) =>
         \A p \in Pools :
            /\ BatchHas(wbatch, "delete", TreeCf(p), wfinalized.height - 1)
            /\ BatchHas(wbatch, "insert", TreeCf(p), wfinalized.height)

\* The third block is committed: the trees of heights 0 and 1 were replaced.
C3_Witness ==
    /\ TipHeight = Some(2)
    /\ \A p \in Pools : DOMAIN db[TreeCf(p)] = {2}

(***************************************************************************)
(* C4: once the genesis batch is written, each pool's tree namespace holds *)
(* the empty tree under height 0, and no later commit finds a pool's tree  *)
(* missing when it reads the tip trees.                                    *)
(***************************************************************************)
C4_GenesisInitializesEmptyTrees ==
    /\ TipHeight = Some(0) =>
         \A p \in Pools : ZsGet(db, TreeCf(p), 0) = Some(EmptyTree)
    /\ wpc # "panicked"
    /\ wpc = "transactions" => IsSome(FinalizedTipHeight(wbefore))
                               /\ NoteCommitmentTrees(wbefore).ok

\* The block after genesis is being built on the trees genesis wrote.
C4_Witness ==
    /\ TipHeight = Some(0)
    /\ wpc = "transactions"
    /\ wfinalized.height = 1
    /\ wtrees = EmptyTrees

(***************************************************************************)
(* C5: when building the batch fails (an append error from                 *)
(* update_note_commitment_trees: a pool's tree has no room for the block's *)
(* commitments; or a value pool error from prepare_chain_value_pools_batch:*)
(* a pool would go negative), write_block returns the error and the store  *)
(* reads in every namespace as it did before the attempt.                  *)
(***************************************************************************)
C5_FailedBatchNotWritten ==
    /\ (AttemptFinished /\ wfinalized.height > 0
          /\ (TreeOverflows(wfinalized, wbefore)
              \/ PoolGoesNegative(wfinalized, wbefore)))
         => wresult = "err"
    /\ (AttemptFinished /\ wresult = "err") => db = wbefore
    /\ wpc \in {"transactions", "note_commitments", "value_pools", "write"}
         => db = wbefore

\* A block failed at its second transaction's append, after its first
\* transaction's nullifier inserts were queued.
C5_Witness ==
    /\ AttemptFinished
    /\ wresult = "err"
    /\ wtx = 2
    /\ wfinalized.transactions[1].nullifiers["sprout"] # << >>
    /\ TreeOverflows(wfinalized, wbefore)
    /\ db = wbefore

(***************************************************************************)
(* C6: the nullifiers a pool's namespace contains are exactly those the    *)
(* transactions of the committed blocks revealed in that pool: every one   *)
(* of them (so none is ever lost by a later commit), none another pool's   *)
(* transactions revealed, and none of a block whose commit is not written. *)
(***************************************************************************)
C6_NullifiersAreThoseRevealed ==
    /\ \A p \in Pools :
         \A n \in UNION { RevealedNullifiers(db, q) \cup BlockNullifiers(wfinalized, q) :
                            q \in Pools } :
            ContainsNullifier(db, p, n) <=> n \in RevealedNullifiers(db, p)
    /\ \A p \in Pools : DOMAIN db[NullifierCf(p)] = RevealedNullifiers(db, p)
    /\ IsSome(TipHeight) => CommittedHeights(db) = 0..Unwrap(TipHeight)

\* A sprout-only nullifier of block 2 is still contained after block 3, which
\* revealed a sapling nullifier, and is in neither other namespace.
C6_Witness ==
    /\ TipHeight = Some(3)
    /\ ContainsNullifier(db, "sprout", <<2, 2, 1>>)
    /\ ~ContainsNullifier(db, "sapling", <<2, 2, 1>>)
    /\ ~ContainsNullifier(db, "orchard", <<2, 2, 1>>)
    /\ BlockNullifiers(BlockAt(db, 3), "sapling") # {}

(***************************************************************************)
(* C7: finalized_value_pool() is zero while no pool was written, and after *)
(* the blocks up to the tip were committed it is zero with each block's    *)
(* value pool change added in order; the namespace holds at most the one   *)
(* key (), and no component is negative.                                   *)
(***************************************************************************)
C7_ValuePoolIsRunningBalance ==
    /\ DOMAIN db["tip_chain_value_pool"] \subseteq {Unit}
    /\ DOMAIN db["tip_chain_value_pool"] = {} =>
         FinalizedValuePool(db) = ValueBalanceZero
    /\ FinalizedValuePool(db) =
         PoolAfter(db, IF IsSome(TipHeight) THEN Unwrap(TipHeight) ELSE 0)
    /\ NonNegative(FinalizedValuePool(db))
    /\ (AttemptFinished /\ wfinalized.height > 0
          /\ PoolGoesNegative(wfinalized, wbefore)) => wresult = "err"

\* Two blocks changed the pool, and a third that would overdraw the orchard
\* pool was refused.
C7_Witness ==
    /\ TipHeight = Some(2)
    /\ FinalizedValuePool(db) = ValueBalanceNew(0, 1, 0, 0)
    /\ AttemptFinished
    /\ wresult = "err"
    /\ PoolGoesNegative(wfinalized, wbefore)

(***************************************************************************)
(* C8: the history_tree namespace holds at most one entry, keyed by the    *)
(* tip height, present exactly when the tip block's treestate has a        *)
(* non-empty history tree; history_tree() returns that tree, and the empty *)
(* default tree when there is no tip or no entry at the tip height.        *)
(***************************************************************************)
C8_HistoryTreeOnlyAtTip ==
    /\ IsSome(TipHeight) =>
         /\ DOMAIN db["history_tree"] \subseteq {Unwrap(TipHeight)}
         /\ HistoryTree(db) = BlockAt(db, Unwrap(TipHeight)).history_tree
         /\ ZsContains(db, "history_tree", Unwrap(TipHeight))
              <=> IsSome(BlockAt(db, Unwrap(TipHeight)).history_tree)
    /\ ~IsSome(TipHeight) =>
         /\ DOMAIN db["history_tree"] = {}
         /\ HistoryTree(db) = None
    /\ (wpc = "write" /\ wfinalized.height > 0) =>
         /\ BatchHas(wbatch, "delete", "history_tree", wfinalized.height - 1)
         /\ BatchHas(wbatch, "insert", "history_tree", wfinalized.height)
              <=> IsSome(wfinalized.history_tree)

\* The tip block has no history tree and the block before it had one: the
\* old entry is gone and history_tree() returns the empty tree.
C8_Witness ==
    /\ TipHeight = Some(2)
    /\ IsSome(BlockAt(db, 1).history_tree)
    /\ ~IsSome(BlockAt(db, 2).history_tree)
    /\ HistoryTree(db) = None
    /\ DOMAIN db["history_tree"] = {}

(***************************************************************************)
(* Reads that overlay the best non-finalized chain on the finalized state  *)
(* (service/read/chain.rs).                                                *)
(***************************************************************************)
POW_AVERAGING_WINDOW == 17
POW_MEDIAN_BLOCK_SPAN == 11
NEEDED_CONTEXT_BLOCKS == POW_AVERAGING_WINDOW + POW_MEDIAN_BLOCK_SPAN

\* Most blocks the best chain holds in a run of the read model.
MaxChainLength == 2
\* Highest height committed straight to the finalized state in the read model.
MaxFinalizedHeight == 30

RECURSIVE UpdateTreesForAll(_, _, _)
\* update_note_commitment_trees over the transactions from index `t` on.
UpdateTreesForAll(transactions, t, trees) ==
    IF t > Len(transactions) THEN Ok(trees)
    ELSE LET updated == UpdateNoteCommitmentTrees(transactions[t], trees)
         IN IF updated.ok
            THEN UpdateTreesForAll(transactions, t + 1, updated.value)
            ELSE Err

RECURSIVE NullifierBatchForAll(_, _, _)
\* prepare_nullifier_batch over the transactions from index `t` on.
NullifierBatchForAll(batch, transactions, t) ==
    IF t > Len(transactions) THEN batch
    ELSE NullifierBatchForAll(PrepareNullifierBatch(batch, transactions[t]),
                              transactions, t + 1)

\* prepare_block_batch in one piece: the batch for `finalized`, or Err.
PrepareBlockBatch(database, finalized) ==
    LET queued == PrepareBlockHeaderTransactionsBatch(<< >>, finalized)
    IN IF finalized.height = 0
       THEN Ok(PrepareGenesisNoteCommitmentTreeBatch(queued, finalized))
       ELSE LET trees == UpdateTreesForAll(finalized.transactions, 1,
                                           NoteCommitmentTrees(database).value)
            IN IF trees.ok
               THEN PrepareChainValuePoolsBatch(
                        PrepareNoteCommitmentBatch(
                            NullifierBatchForAll(queued, finalized.transactions, 1),
                            finalized, trees.value),
                        finalized, FinalizedValuePool(database))
               ELSE Err

\* write_block in one piece.
WriteBlock(database, finalized) ==
    LET batch == PrepareBlockBatch(database, finalized)
    IN IF batch.ok THEN ApplyBatch(database, batch.value) ELSE database

\* A transparent-only block, with or without a history tree.
TransparentShape(history) ==
    [txs |-> <<CoinbaseTx>>, delta |-> ValueBalanceNew(1, 0, 0, 0),
     history |-> history]

\* ZebraDb::block_header(HashOrHeight::Height(height))
BlockHeader(database, height) ==
    LET block == ZsGet(database, "block_by_height", height)
    IN IF IsSome(block) THEN Some(Unwrap(block).header) ELSE None

\* Chain::non_finalized_nth_header: the header `i` blocks below the chain's tip.
NonFinalizedNthHeader(c, i) ==
    IF i < Len(c.blocks) THEN Some(c.blocks[Len(c.blocks) - i].header) ELSE None

\* history_tree_root
HistoryTreeRoot(c, database) ==
    IF IsSome(c) THEN Some(Unwrap(c).history_tree)
    ELSE Some(HistoryTree(database))

RECURSIVE CollectHeaders(_, _, _, _)
\* The loop of last_n_block_headers from index `i` on.
CollectHeaders(c, database, height, i) ==
    IF i >= NEEDED_CONTEXT_BLOCKS THEN << >>
    ELSE LET res == IF IsSome(c)
                    THEN Some(NonFinalizedNthHeader(Unwrap(c), i))
                    ELSE Some(BlockHeader(database, Unwrap(HeightSub(height, i))))
             rest == CollectHeaders(c, database, height, i + 1)
         IN IF IsSome(res) /\ IsSome(Unwrap(res))
            THEN <<Unwrap(Unwrap(res))>> \o rest
            ELSE rest

\* last_n_block_headers
LastNBlockHeaders(c, database, height) ==
    IF height > NEEDED_CONTEXT_BLOCKS
    THEN Some(CollectHeaders(c, database, height, 0))
    ELSE None

readFrame == <<writerVars, readerVars, codec, serviceVars, toolVars>>

\* A block is committed straight to the finalized state (no chain yet).
CommitFinalized ==
    /\ ~IsSome(chain)
    /\ NextHeight(db) <= MaxFinalizedHeight
    /\ db' = WriteBlock(db, IF NextHeight(db) = 0 THEN GenesisBlock
                            ELSE MakeBlock(NextHeight(db), TransparentShape(TRUE)))
    /\ UNCHANGED <<chain, query, readFrame>>

\* The height of the best chain's tip, or of the finalized tip without one.
BestTipHeight ==
    IF IsSome(chain) THEN Unwrap(chain).blocks[Len(Unwrap(chain).blocks)].height
    ELSE Unwrap(FinalizedTipHeight(db))

\* A block is committed to the best chain (the first one creates the chain).
ChainCommit ==
    /\ IsSome(FinalizedTipHeight(db))
    /\ LET block == MakeBlock(BestTipHeight + 1, TransparentShape(TRUE))
           blocks == IF IsSome(chain) THEN Unwrap(chain).blocks ELSE << >>
       IN /\ Len(blocks) < MaxChainLength
          /\ chain' = Some([blocks |-> Append(blocks, block),
                            history_tree |-> block.history_tree])
    /\ UNCHANGED <<db, query, readFrame>>

ReadHistoryTreeRoot ==
    /\ query' = [kind |-> "history_tree_root", chain |-> chain, db |-> db,
                 height |-> 0, result |-> HistoryTreeRoot(chain, db)]
    /\ UNCHANGED <<db, chain, readFrame>>

\* last_n_block_headers for the best tip.
ReadLastNBlockHeaders ==
    /\ IsSome(FinalizedTipHeight(db))
    /\ query' = [kind |-> "last_n_block_headers", chain |-> chain, db |-> db,
                 height |-> BestTipHeight,
                 result |-> LastNBlockHeaders(chain, db, BestTipHeight)]
    /\ UNCHANGED <<db, chain, readFrame>>

ReadNext ==
    \/ CommitFinalized
    \/ ChainCommit
    \/ ReadHistoryTreeRoot
    \/ ReadLastNBlockHeaders

ReadSpec == Init /\ [][ReadNext]_vars

RECURSIVE OverlayHeaders(_, _, _, _)
\* The headers from index `i` on, each from the chain when the chain holds
\* it and from the finalized store at height - i when it does not.
OverlayHeaders(c, database, height, i) ==
    IF i >= NEEDED_CONTEXT_BLOCKS THEN << >>
    ELSE LET held == IF IsSome(c) THEN NonFinalizedNthHeader(Unwrap(c), i) ELSE None
             found == IF IsSome(held) THEN held
                      ELSE BlockHeader(database, Unwrap(HeightSub(height, i)))
             rest == OverlayHeaders(c, database, height, i + 1)
         IN IF IsSome(found) THEN <<Unwrap(found)>> \o rest ELSE rest

(***************************************************************************)
(* C9: history_tree_root returns the best chain's history tree when a      *)
(* chain is supplied and the finalized one otherwise, never None; and      *)
(* last_n_block_headers takes each header from the best chain when the     *)
(* chain holds it and from the finalized store at height - i when it does  *)
(* not, also when a chain is supplied that does not reach back that far.   *)
(***************************************************************************)
C9_ReadsFallBackToFinalized ==
    /\ query.kind = "history_tree_root" =>
         /\ IsSome(query.result)
         /\ query.result = IF IsSome(query.chain)
                           THEN Some(Unwrap(query.chain).history_tree)
                           ELSE Some(HistoryTree(query.db))
    /\ (query.kind = "last_n_block_headers"
          /\ query.height > NEEDED_CONTEXT_BLOCKS) =>
         query.result =
             Some(OverlayHeaders(query.chain, query.db, query.height, 0))

(***************************************************************************)
(* The disk format of column family values and the round-trip harness      *)
(* (finalized_state/arbitrary.rs).                                         *)
(***************************************************************************)
\* u32::to_be_bytes
U32ToBeBytes(n) ==
    <<n \div 16777216, (n \div 65536) % 256, (n \div 256) % 256, n % 256>>

\* u32::from_be_bytes
U32FromBeBytes(bytes) ==
    ((bytes[1] * 256 + bytes[2]) * 256 + bytes[3]) * 256 + bytes[4]

\* IntoDisk::as_bytes for block::Height and TransactionLocation
AsBytes(type, value) ==
    IF type = "Height" THEN U32ToBeBytes(value)
    ELSE U32ToBeBytes(value.height) \o U32ToBeBytes(value.index)

\* FromDisk::from_bytes for block::Height and TransactionLocation
FromBytes(type, bytes) ==
    IF type = "Height" THEN U32FromBeBytes(bytes)
    ELSE [height |-> U32FromBeBytes(SubSeq(bytes, 1, 4)),
          index |-> U32FromBeBytes(SubSeq(bytes, 5, 8))]

\* round_trip
RoundTrip(type, input) == FromBytes(type, AsBytes(type, input))

\* A variant that decodes the bytes in the opposite order.
RoundTripRefReversed(type, input) ==
    LET bytes == AsBytes(type, input)
    IN FromBytes(type, [i \in 1..Len(bytes) |-> bytes[Len(bytes) + 1 - i]])

\* round_trip_ref
RoundTripRef(type, input) == FromBytes(type, AsBytes(type, input))

\* round_trip_arc: Arc<T> encodes as the T it holds.
RoundTripArc(type, input) == FromBytes(type, AsBytes(type, input))

\* Values of a u32 field, across the byte boundaries.
U32Samples == {0, 1, 255, 256, 65535, 65536, 16777216, 2147483647}

\* The values the harness is run on, per value type.
ValuesOf(type) ==
    IF type = "Height" THEN U32Samples
    ELSE {[height |-> h, index |-> i] : h \in U32Samples, i \in U32Samples}

ValueTypes == {"Height", "TransactionLocation"}

codecFrame == <<db, writerVars, readerVars, chain, query, serviceVars, toolVars>>

\* assert_round_trip
AssertRoundTrip ==
    /\ \E type \in ValueTypes : \E input \in ValuesOf(type) :
         codec' = [kind |-> "round_trip", type |-> type, input |-> input,
                   output |-> RoundTrip(type, input)]
    /\ UNCHANGED codecFrame

\* assert_round_trip_ref
AssertRoundTripRef ==
    /\ \E type \in ValueTypes : \E input \in ValuesOf(type) :
         codec' = [kind |-> "round_trip_ref", type |-> type, input |-> input,
                   output |-> RoundTripRef(type, input)]
    /\ UNCHANGED codecFrame

\* assert_round_trip_arc
AssertRoundTripArc ==
    /\ \E type \in ValueTypes : \E input \in ValuesOf(type) :
         codec' = [kind |-> "round_trip_arc", type |-> type, input |-> input,
                   output |-> RoundTripArc(type, input)]
    /\ UNCHANGED codecFrame

\* assert_value_properties runs the three, in any order here.
CodecNext ==
    \/ AssertRoundTrip
    \/ AssertRoundTripRef
    \/ AssertRoundTripArc

CodecSpec == Init /\ [][CodecNext]_vars

ReorgDepth == 2
\* Highest height of a block sent to the state service.
MaxBlockHeight == 4

ValidBranches == {1, 2, 3}
InvalidBranches == {4, 5, 6, 7}

\* The height of the invalid blocks.
InvalidHeight == ReorgDepth + 1

\* The lowest height a branch has a block of its own at.
BranchStart(branch) ==
    IF branch = 2 THEN 2
    ELSE IF branch \in InvalidBranches THEN InvalidHeight
    ELSE 1

\* The branch holding the parent of the block `branch` has at `height`.
ParentBranch(branch, height) ==
    IF height = 1 THEN 0
    ELSE IF height > BranchStart(branch) THEN branch
    ELSE IF branch = 7 THEN 9
    ELSE 1

\* The shielded pool the blocks at `height` use.
PoolAt(height) ==
    IF height % 3 = 2 THEN "sapling"
    ELSE IF height % 3 = 0 THEN "orchard"
    ELSE "sprout"

\* The outpoint of the coinbase output of the block with hash `hash`, and
\* the nullifier and the note commitment of its shielded transaction.
CoinbaseOutpoint(hash) == <<hash, 1, 1>>
ShieldedNullifier(hash) == <<hash, 2, 1>>
ShieldedCommitment(hash) == <<hash, 2, 2>>

RECURSIVE PoolTreeAfter(_, _, _)
\* The note commitment tree of `pool` after the block `branch` has at
\* `height`: the commitments of the shielded transactions on its path.
PoolTreeAfter(branch, height, pool) ==
    IF height <= 0 THEN EmptyTree
    ELSE LET before == PoolTreeAfter(ParentBranch(branch, height), height - 1, pool)
         IN IF height >= 2 /\ PoolAt(height) = pool
            THEN Append(before, ShieldedCommitment(BlockHash(branch, height)))
            ELSE before

NoneOf == [p \in Pools |-> << >>]

\* The coinbase transaction of a sent block: one new transparent output.
SentCoinbase(hash) ==
    [nullifiers |-> NoneOf, note_commitments |-> NoneOf, anchors |-> NoneOf,
     inputs |-> << >>, outputs |-> <<CoinbaseOutpoint(hash)>>]

\* The shielded transaction of a sent block above height 1: it spends its
\* parent's coinbase output, reveals one nullifier against the root of the
\* pool's tree after the parent, and creates one note commitment.
SentShielded(branch, height) ==
    LET hash == BlockHash(branch, height)
        parent == BlockHash(ParentBranch(branch, height), height - 1)
        grandparent == BlockHash(ParentBranch(1, height - 1), height - 2)
        pool == PoolAt(height)
        nullifier == IF branch = 4 THEN ShieldedNullifier(parent)
                     ELSE ShieldedNullifier(hash)
        nullifier_pool == IF branch = 4 THEN PoolAt(height - 1) ELSE pool
        anchor == IF branch = 6 THEN Root(<<ShieldedCommitment(hash)>>)
                  ELSE Root(PoolTreeAfter(ParentBranch(branch, height),
                                          height - 1, pool))
        input == IF branch = 5 THEN CoinbaseOutpoint(grandparent)
                 ELSE CoinbaseOutpoint(parent)
    IN [nullifiers |-> [p \in Pools |-> IF p = nullifier_pool
                                        THEN <<nullifier>> ELSE << >>],
        note_commitments |-> [p \in Pools |-> IF p = pool
                                              THEN <<ShieldedCommitment(hash)>>
                                              ELSE << >>],
        anchors |-> [p \in Pools |-> IF p = pool THEN <<anchor>> ELSE << >>],
        inputs |-> <<input>>,
        outputs |-> << >>]

\* The block `branch` has at `height`.
SentBlock(branch, height) ==
    LET hash == BlockHash(branch, height)
        pool == PoolAt(height)
    IN [height |-> height,
        hash |-> hash,
        previous_block_hash |-> BlockHash(ParentBranch(branch, height), height - 1),
        work |-> IF branch = 2 THEN 3 ELSE 2,
        header |-> <<"header", hash>>,
        transactions |-> IF height = 1 THEN <<SentCoinbase(hash)>>
                         ELSE <<SentCoinbase(hash), SentShielded(branch, height)>>,
        chain_value_pool_change |->
            IF height = 1 THEN ValueBalanceNew(1, 0, 0, 0)
            ELSE [ValueBalanceZero EXCEPT ![pool] = 1],
        history_tree |-> Some(hash)]

SentBlocks ==
    { SentBlock(h[1], h[2]) :
        h \in { x \in ValidBranches \X (1..MaxBlockHeight) :
                   x[2] >= BranchStart(x[1]) } }
    \cup { SentBlock(branch, InvalidHeight) : branch \in InvalidBranches }

(***************************************************************************)
(* Chain: one candidate branch's view above the finalized tip.             *)
(***************************************************************************)
\* `F` of the value of `value`, which is evaluated once.
With(value, F(_)) == CHOOSE r \in { F(x) : x \in {value} } : TRUE

\* A failed commit, with the error it reports.
Fail(error) == [ok |-> FALSE, value |-> error]

\* The hash of the finalized tip.
FinalizedTipHash(database) ==
    database["block_by_height"][Unwrap(FinalizedTipHeight(database))].hash

\* A chain with no block yet, on the finalized tip of `database`: the
\* cumulative indexes start from the finalized ones.
NewChain(database) ==
    [blocks |-> << >>,
     work |-> 0,
     created |-> {},
     spent |-> {},
     nullifiers |-> [p \in Pools |-> {}],
     trees |-> NoteCommitmentTrees(database).value,
     roots |-> << >>,
     history_tree |-> HistoryTree(database),
     value_pool |-> FinalizedValuePool(database)]

ChainTip(c) == c.blocks[Len(c.blocks)]
ChainRoot(c) == c.blocks[1]
ChainHashes(c) == { c.blocks[i].hash : i \in DOMAIN c.blocks }

\* The anchors reachable within the chain: the roots after each of its blocks.
ChainAnchors(c, pool) == { c.roots[i][pool] : i \in DOMAIN c.roots }

\* A variant that looks for a revealed nullifier in the finalized state only.
CheckTransactionFinalizedNullifiers(c, database, transaction) ==
    IF \E p \in Pools : \E n \in SeqToSet(transaction.nullifiers[p]) :
           ContainsNullifier(database, p, n)
    THEN "DuplicateNullifier"
    ELSE IF \E o \in SeqToSet(transaction.inputs) :
                \/ o \in c.spent
                \/ o \notin c.created /\ ~ZsContains(database, "utxo_by_outpoint", o)
    THEN "SpentOutputReused"
    ELSE IF \E p \in Pools : \E a \in SeqToSet(transaction.anchors[p]) :
                a \notin ChainAnchors(c, p) /\ ~ContainsAnchor(database, p, a)
    THEN "MissingAnchor"
    ELSE "ok"

\* A variant that accepts an input the chain has spent already.
CheckTransactionSpentInputs(c, database, transaction) ==
    IF \E p \in Pools : \E n \in SeqToSet(transaction.nullifiers[p]) :
           n \in c.nullifiers[p] \/ ContainsNullifier(database, p, n)
    THEN "DuplicateNullifier"
    ELSE IF \E p \in Pools : \E a \in SeqToSet(transaction.anchors[p]) :
                a \notin ChainAnchors(c, p) /\ ~ContainsAnchor(database, p, a)
    THEN "MissingAnchor"
    ELSE "ok"

\* The three checks of "apply" on one transaction: "ok", or the error.
CheckTransaction(c, database, transaction) ==
    IF \E p \in Pools : \E n \in SeqToSet(transaction.nullifiers[p]) :
           n \in c.nullifiers[p] \/ ContainsNullifier(database, p, n)
    THEN "DuplicateNullifier"
    ELSE IF \E o \in SeqToSet(transaction.inputs) :
                \/ o \in c.spent
                \/ o \notin c.created /\ ~ZsContains(database, "utxo_by_outpoint", o)
    THEN "SpentOutputReused"
    ELSE IF \E p \in Pools : \E a \in SeqToSet(transaction.anchors[p]) :
                a \notin ChainAnchors(c, p) /\ ~ContainsAnchor(database, p, a)
    THEN "MissingAnchor"
    ELSE "ok"

\* "Apply" on one transaction: the checks, then the chain's indexes updated.
ApplyTransaction(c, database, transaction) ==
    With(CheckTransaction(c, database, transaction), LAMBDA checked :
    With(UpdateNoteCommitmentTrees(transaction, c.trees), LAMBDA trees :
       IF checked # "ok" THEN Fail(checked)
       ELSE IF ~trees.ok THEN Fail("NoteCommitmentTreeError")
       ELSE Ok([c EXCEPT
                  !.nullifiers = [p \in Pools |->
                                    @[p] \cup SeqToSet(transaction.nullifiers[p])],
                  !.spent = @ \cup SeqToSet(transaction.inputs),
                  !.created = @ \cup SeqToSet(transaction.outputs),
                  !.trees = trees.value])))

RECURSIVE ApplyTransactions(_, _, _, _)
\* "Apply" on the transactions from index `t` on: the first error ends it.
ApplyTransactions(c, database, transactions, t) ==
    IF t > Len(transactions) THEN Ok(c)
    ELSE With(ApplyTransaction(c, database, transactions[t]), LAMBDA applied :
            IF applied.ok
            THEN ApplyTransactions(applied.value, database, transactions, t + 1)
            ELSE applied)

\* A variant that updates the value pool without the block's change.
ApplyBlockNoValue(c, database, block) ==
    With(ApplyTransactions(c, database, block.transactions, 1), LAMBDA applied :
       IF ~applied.ok THEN applied
       ELSE Ok([applied.value EXCEPT
                  !.blocks = Append(@, block),
                  !.work = @ + block.work,
                  !.roots = Append(@, [p \in Pools |-> Root(applied.value.trees[p])]),
                  !.history_tree = block.history_tree]))

\* "Apply": the block's transactions, then the block itself, the roots of
\* the trees after it, its history tree and its value pool change.
ApplyBlock(c, database, block) ==
    With(ApplyTransactions(c, database, block.transactions, 1), LAMBDA applied :
    With(AddBlock(c.value_pool, block.chain_value_pool_change), LAMBDA pool :
       IF ~applied.ok THEN applied
       ELSE IF ~pool.ok THEN Fail("InvalidValuePool")
       ELSE Ok([applied.value EXCEPT
                  !.blocks = Append(@, block),
                  !.work = @ + block.work,
                  !.roots = Append(@, [p \in Pools |-> Root(applied.value.trees[p])]),
                  !.history_tree = block.history_tree,
                  !.value_pool = pool.value])))

\* The outpoints a block creates and spends, and the nullifiers it reveals.
BlockOutputs(block) ==
    UNION { SeqToSet(block.transactions[t].outputs) : t \in DOMAIN block.transactions }
BlockInputs(block) ==
    UNION { SeqToSet(block.transactions[t].inputs) : t \in DOMAIN block.transactions }

\* The chain without its root block: what the root created, spent and
\* revealed now belongs to the finalized state.
PopRoot(c) ==
    With(ChainRoot(c), LAMBDA root :
       [c EXCEPT
          !.blocks = Tail(@),
          !.work = @ - root.work,
          !.created = @ \ BlockOutputs(root),
          !.spent = @ \ BlockInputs(root),
          !.nullifiers = [p \in Pools |-> @[p] \ BlockNullifiers(root, p)],
          !.roots = Tail(@)])

RECURSIVE ApplyBlocks(_, _, _, _)
\* "Apply" on the first `n` blocks of `blocks`, which were applied before.
ApplyBlocks(c, database, blocks, n) ==
    IF n = 0 THEN c
    ELSE With(ApplyBlocks(c, database, blocks, n - 1), LAMBDA before :
            ApplyBlock(before, database, blocks[n]).value)

\* The parent chain's state up to the fork point: the block with `hash`.
Fork(c, database, hash) ==
    With(NewChain(database), LAMBDA new :
       ApplyBlocks(new, database, c.blocks,
                   CHOOSE i \in DOMAIN c.blocks : c.blocks[i].hash = hash))

\* A variant whose chains share their nullifier sets: the block's nullifiers
\* show in every chain.
ApplyOnSharedIndexes(chains, database, block, parent, replaced) ==
    With(parent, LAMBDA c :
    With(ApplyBlock(c, database, block), LAMBDA applied :
       IF applied.ok
       THEN Ok({ [d EXCEPT !.nullifiers =
                    [p \in Pools |-> @[p] \cup BlockNullifiers(block, p)]] :
                   d \in chains \ replaced } \cup {applied.value})
       ELSE applied))

(***************************************************************************)
(* The non-finalized state: the forest of chains.                          *)
(***************************************************************************)
\* The block applied on `parent`: the chains with the result in place of
\* the chains in `replaced`, or the error.
ApplyOn(chains, database, block, parent, replaced) ==
    With(parent, LAMBDA c :
    With(ApplyBlock(c, database, block), LAMBDA applied :
       IF applied.ok THEN Ok((chains \ replaced) \cup {applied.value})
       ELSE applied))

\* A variant that replaces the parent chain also when the block forks it.
CommitBlockReplacingParent(chains, database, block) ==
    LET parent == block.previous_block_hash
        holding == { c \in chains : parent \in ChainHashes(c) }
    IN IF parent = FinalizedTipHash(database)
       THEN ApplyOn(chains, database, block, NewChain(database), {})
       ELSE IF holding # {}
       THEN With(CHOOSE c \in holding : TRUE, LAMBDA c :
               ApplyOn(chains, database, block, Fork(c, database, parent), {c}))
       ELSE Fail("InvalidParent")

\* commit_block: the chains with the block applied on its parent (the
\* finalized tip, a chain's tip, or a block inside a chain), or the error.
CommitBlock(chains, database, block) ==
    LET parent == block.previous_block_hash
        extended == { c \in chains : ChainTip(c).hash = parent }
        forked == { c \in chains : parent \in ChainHashes(c) }
    IN IF parent = FinalizedTipHash(database)
       THEN ApplyOn(chains, database, block, NewChain(database), {})
       ELSE IF extended # {}
       THEN With(CHOOSE c \in extended : TRUE, LAMBDA c :
               ApplyOn(chains, database, block, c, {c}))
       ELSE IF forked # {}
       THEN With(CHOOSE c \in forked : TRUE, LAMBDA c :
               ApplyOn(chains, database, block, Fork(c, database, parent), {}))
       ELSE Fail("InvalidParent")

\* The order of chains: more cumulative work first, the greater tip hash on
\* equal work.
BetterOrEqual(c, d) ==
    \/ c.work > d.work
    \/ c.work = d.work /\ ChainTip(c).hash >= ChainTip(d).hash

\* A variant that prefers the chain with the most blocks.
BestChainLongest(chains) ==
    CHOOSE c \in chains : \A d \in chains :
        \/ Len(c.blocks) > Len(d.blocks)
        \/ Len(c.blocks) = Len(d.blocks) /\ ChainTip(c).hash >= ChainTip(d).hash

\* best_chain
BestChain(chains) ==
    CHOOSE c \in chains : \A d \in chains : BetterOrEqual(c, d)

\* A variant that keeps every sibling chain, shortening those with a root.
FinalizeRootKeepSiblings(chains, database) ==
    With(ChainRoot(BestChain(chains)), LAMBDA root :
       [root |-> root,
        db |-> WriteBlock(database, root),
        chains |-> { c \in { PopRoot(d) : d \in chains } : c.blocks # << >> }])

\* finalize_root: the best chain's root goes to the finalized state, the
\* chains with another root are dropped, the others lose their root.
FinalizeRoot(chains, database) ==
    With(ChainRoot(BestChain(chains)), LAMBDA root :
       [root |-> root,
        db |-> WriteBlock(database, root),
        chains |-> { c \in { PopRoot(d) :
                               d \in { e \in chains : ChainRoot(e).hash = root.hash } } :
                       c.blocks # << >> }])

RECURSIVE FinalizeAtDepth(_, _, _)
\* A variant that finalizes as soon as the best chain reaches the depth.
FinalizeAtDepth(chains, database, finalized) ==
    IF chains # {} /\ Len(BestChain(chains).blocks) >= ReorgDepth
    THEN With(FinalizeRoot(chains, database), LAMBDA f :
            FinalizeAtDepth(f.chains, f.db, Append(finalized, f.root)))
    ELSE [chains |-> chains, db |-> database, finalized |-> finalized]

RECURSIVE Finalize(_, _, _)
\* finalize_root for as long as the best chain is longer than the depth.
Finalize(chains, database, finalized) ==
    IF chains # {} /\ Len(BestChain(chains).blocks) > ReorgDepth
    THEN With(FinalizeRoot(chains, database), LAMBDA f :
            Finalize(f.chains, f.db, Append(finalized, f.root)))
    ELSE [chains |-> chains, db |-> database, finalized |-> finalized]

(***************************************************************************)
(* The state service: CommitBlock requests and direct finalized commits.   *)
(***************************************************************************)
\* A variant that keeps what commit_block built when it reports an error.
HandleCommitBlockKeepingPartial(chains, database, block) ==
    With(CommitBlock(chains, database, block), LAMBDA committed :
       IF committed.ok
       THEN With(Finalize(committed.value, database, << >>), LAMBDA f :
               [result |-> "ok", chains |-> f.chains, db |-> f.db,
                committed |-> committed.value, finalized |-> f.finalized])
       ELSE [result |-> committed.value,
             chains |-> chains \cup
                 {ApplyBlockNoValue(NewChain(database), database,
                      [block EXCEPT !.transactions = <<@[1]>>]).value},
             db |-> database, committed |-> chains, finalized |-> << >>])

\* CommitBlock: commit_block, then finalization; an error changes nothing.
HandleCommitBlock(chains, database, block) ==
    With(CommitBlock(chains, database, block), LAMBDA committed :
       IF committed.ok
       THEN With(Finalize(committed.value, database, << >>), LAMBDA f :
               [result |-> "ok", chains |-> f.chains, db |-> f.db,
                committed |-> committed.value, finalized |-> f.finalized])
       ELSE [result |-> committed.value, chains |-> chains, db |-> database,
             committed |-> chains, finalized |-> << >>])

\* A variant that writes any block it is handed.
CommitFinalizedDirectUnchecked(database, block) ==
    [result |-> "ok", db |-> WriteBlock(database, block)]

\* commit_finalized_direct: the block on the finalized tip is written, any
\* other block is rejected.
CommitFinalizedDirect(database, block) ==
    IF /\ block.height = NextHeight(database)
       /\ block.height = 0
          \/ block.previous_block_hash = FinalizedTipHash(database)
    THEN [result |-> "ok", db |-> WriteBlock(database, block)]
    ELSE [result |-> "rejected", db |-> database]

serviceFrame == <<writerVars, readerVars, chain, query, codec, toolVars>>

\* A CommitBlock request for a block not accepted before.
CommitBlockRequest ==
    /\ IsSome(FinalizedTipHeight(db))
    /\ \E block \in SentBlocks :
         /\ block.hash \notin accepted
         /\ \E handled \in {HandleCommitBlock(chain_set, db, block)} :
               /\ chain_set' = handled.chains
               /\ db' = handled.db
               /\ accepted' = IF handled.result = "ok"
                              THEN accepted \cup {block.hash} ELSE accepted
               /\ last' = [kind |-> "commit_block", hash |-> block.hash,
                           result |-> handled.result,
                           chains_before |-> chain_set, db_before |-> db,
                           chains_committed |-> handled.committed,
                           finalized |-> handled.finalized]
    /\ UNCHANGED serviceFrame

\* The blocks the finalized state holds.
FinalizedBlocks(database) ==
    { database["block_by_height"][h] : h \in DOMAIN database["block_by_height"] }

\* A direct commit to the finalized state: of the genesis block, or of a
\* block the finalized state holds already.
CommitFinalizedRequest ==
    /\ \E block \in {GenesisBlock} \cup FinalizedBlocks(db) :
         \E handled \in {CommitFinalizedDirect(db, block)} :
            /\ db' = handled.db
            /\ last' = [kind |-> "commit_finalized", hash |-> block.hash,
                        result |-> handled.result,
                        chains_before |-> chain_set, db_before |-> db,
                        chains_committed |-> chain_set,
                        finalized |-> IF handled.result = "ok"
                                      THEN <<block>> ELSE << >>]
    /\ UNCHANGED <<chain_set, accepted, serviceFrame>>

StateNext ==
    \/ CommitBlockRequest
    \/ CommitFinalizedRequest

StateSpec == Init /\ [][StateNext]_vars

\* The hashes of the blocks the finalized state holds.
FinalizedHashes(database) == { b.hash : b \in FinalizedBlocks(database) }

RECURSIVE BulkCommit(_, _)
\* The store after the first `n` blocks of `blocks` were written in order
\* to an empty store.
BulkCommit(blocks, n) ==
    IF n = 0 THEN EmptyDb
    ELSE With(BulkCommit(blocks, n - 1), LAMBDA before :
            WriteBlock(before, blocks[n]))

\* The blocks of the finalized state in height order.
FinalizedSeq(database) ==
    [i \in 1..NextHeight(database) |-> database["block_by_height"][i - 1]]

\* The one chain of a state with at most one chain.
OnlyChain == IF chain_set = {} THEN NewChain(db) ELSE CHOOSE c \in chain_set : TRUE

\* Only blocks of branch 1 were accepted: they form a single chain.
SingleChain == \A h \in accepted : h % 10 = 1

(***************************************************************************)
(* C12: while the accepted blocks form a single chain, the state reached   *)
(* through the non-finalized path (the finalized store overlaid with the   *)
(* one chain) equals the store reached by writing the same blocks in order *)
(* as finalized blocks: same UTXO set, same nullifier sets, same tip trees,*)
(* same history tree and same value pool.                                  *)
(***************************************************************************)
C12_IncrementalEqualsBulk ==
    (SingleChain /\ IsSome(FinalizedTipHeight(db))) =>
        /\ Cardinality(chain_set) <= 1
        /\ With(BulkCommit(FinalizedSeq(db) \o OnlyChain.blocks,
                           NextHeight(db) + Len(OnlyChain.blocks)),
                LAMBDA bulk :
             /\ NextHeight(bulk) = NextHeight(db) + Len(OnlyChain.blocks)
             /\ DOMAIN bulk["utxo_by_outpoint"] =
                  (DOMAIN db["utxo_by_outpoint"] \cup OnlyChain.created)
                     \ OnlyChain.spent
             /\ \A p \in Pools :
                  /\ DOMAIN bulk[NullifierCf(p)] =
                       DOMAIN db[NullifierCf(p)] \cup OnlyChain.nullifiers[p]
                  /\ NoteCommitmentTree(bulk, p) = Ok(OnlyChain.trees[p])
             /\ HistoryTree(bulk) = OnlyChain.history_tree
             /\ FinalizedValuePool(bulk) = OnlyChain.value_pool)

\* Three blocks of branch 1 went through the non-finalized path: the first
\* is finalized, the chain holds the other two, and a sapling nullifier of
\* the chain is in no finalized namespace yet.
C12_Witness ==
    /\ accepted = {BlockHash(1, 1), BlockHash(1, 2), BlockHash(1, 3)}
    /\ FinalizedTipHeight(db) = Some(1)
    /\ Len(OnlyChain.blocks) = 2
    /\ ShieldedNullifier(BlockHash(1, 2)) \in OnlyChain.nullifiers["sapling"]
    /\ ~ContainsNullifier(db, "sapling", ShieldedNullifier(BlockHash(1, 2)))
    /\ OnlyChain.value_pool = ValueBalanceNew(1, 0, 1, 1)

(***************************************************************************)
(* What a commit request was about, from the block it carried.             *)
(***************************************************************************)
\* The sent block with hash `hash`.
BlockOfHash(hash) == CHOOSE b \in SentBlocks : b.hash = hash

ValidationErrors ==
    {"DuplicateNullifier", "SpentOutputReused", "MissingAnchor", "InvalidParent"}

\* The latest request was a CommitBlock that was rejected.
Rejected == last.kind = "commit_block" /\ last.result # "ok"

NullifiersUpTo(c, n, pool) ==
    UNION { BlockNullifiers(c.blocks[i], pool) : i \in 1..n }

\* The chains of `chains` that hold `hash`, and `hash`'s position in one.
ChainsHolding(chains, hash) == { c \in chains : hash \in ChainHashes(c) }
PositionOf(c, hash) == CHOOSE i \in DOMAIN c.blocks : c.blocks[i].hash = hash

\* The block of the latest request reveals a nullifier that the chain `c`
\* it extends (up to the block's parent) reveals already.
RevealsAgain(c) ==
    LET block == BlockOfHash(last.hash)
        parent == block.previous_block_hash
    IN /\ parent \in ChainHashes(c)
       /\ \E p \in Pools :
            BlockNullifiers(block, p)
              \cap NullifiersUpTo(c, PositionOf(c, parent), p) # {}

(***************************************************************************)
(* C14: a CommitBlock whose block reveals a nullifier that the chain it    *)
(* extends reveals already fails with the duplicate-nullifier error, and   *)
(* that chain is tracked afterwards with its nullifier sets unchanged.     *)
(***************************************************************************)
C14_DuplicateNullifierRejected ==
    last.kind = "commit_block" =>
        \A c \in last.chains_before :
            RevealsAgain(c) =>
                /\ last.result = "DuplicateNullifier"
                /\ c \in chain_set
                /\ \A d \in ChainsHolding(chain_set, ChainTip(c).hash) :
                     d.nullifiers = c.nullifiers

\* The block that reveals its parent's sapling nullifier again was sent
\* while the best chain held the parent below its tip.
C14_Witness ==
    /\ last.kind = "commit_block"
    /\ last.hash = BlockHash(4, InvalidHeight)
    /\ last.result = "DuplicateNullifier"
    /\ \E c \in last.chains_before :
         /\ RevealsAgain(c)
         /\ c = BestChain(last.chains_before)
         /\ ChainTip(c).hash # BlockOfHash(last.hash).previous_block_hash
         /\ c \in chain_set

RECURSIVE AncestorBranch(_, _, _)
\* The branch holding the ancestor at height `j` of the block `branch` has
\* at `height`.
AncestorBranch(branch, height, j) ==
    IF j >= height THEN branch
    ELSE AncestorBranch(ParentBranch(branch, height), height - 1, j)

\* The roots of `pool`'s tree after each block below `block` on its path
\* from genesis.
RootsBefore(block, pool) ==
    { Root(PoolTreeAfter(AncestorBranch(block.hash % 10, block.height, j), j, pool)) :
        j \in 0..(block.height - 1) }

\* The places of a chain where a nullifier of `pool` is revealed, and
\* where an outpoint is spent: block, transaction, index.
NullifierPlaces(c, pool) ==
    { x \in (DOMAIN c.blocks) \X (1..2) \X (1..2) :
        /\ x[2] \in DOMAIN c.blocks[x[1]].transactions
        /\ x[3] \in DOMAIN c.blocks[x[1]].transactions[x[2]].nullifiers[pool] }
InputPlaces(c) ==
    { x \in (DOMAIN c.blocks) \X (1..2) \X (1..2) :
        /\ x[2] \in DOMAIN c.blocks[x[1]].transactions
        /\ x[3] \in DOMAIN c.blocks[x[1]].transactions[x[2]].inputs }

(***************************************************************************)
(* C15: in every tracked chain no nullifier is revealed at two places, no  *)
(* outpoint is spent at two places, and every anchor a transaction refers  *)
(* to is the root of the pool's tree after some block below it on its path.*)
(***************************************************************************)
C15_ChainInvariant ==
    \A c \in chain_set :
        /\ \A p \in Pools : \A x, y \in NullifierPlaces(c, p) :
             c.blocks[x[1]].transactions[x[2]].nullifiers[p][x[3]]
               = c.blocks[y[1]].transactions[y[2]].nullifiers[p][y[3]]
             => x = y
        /\ \A x, y \in InputPlaces(c) :
             c.blocks[x[1]].transactions[x[2]].inputs[x[3]]
               = c.blocks[y[1]].transactions[y[2]].inputs[y[3]]
             => x = y
        /\ \A i \in DOMAIN c.blocks :
             \A t \in DOMAIN c.blocks[i].transactions : \A p \in Pools :
                SeqToSet(c.blocks[i].transactions[t].anchors[p])
                  \subseteq RootsBefore(c.blocks[i], p)

\* Two chains are tracked, each holding two blocks that spend an outpoint,
\* reveal a nullifier and refer to an anchor, after invalid blocks were sent.
C15_Witness ==
    /\ Cardinality(chain_set) = 2
    /\ \A c \in chain_set :
         /\ Len(c.blocks) = 2
         /\ Cardinality(InputPlaces(c)) = 2
         /\ Cardinality(UNION { NullifierPlaces(c, p) : p \in Pools }) = 2
    /\ Rejected

(***************************************************************************)
(* The block tree the accepted blocks form above the finalized tip.        *)
(***************************************************************************)
SentHashes == { b.hash : b \in SentBlocks }

RECURSIVE DescendsFrom(_, _)
\* The block with `hash` is `tip` or has it among its ancestors.
DescendsFrom(hash, tip) ==
    IF hash = tip THEN TRUE
    ELSE IF hash \notin SentHashes THEN FALSE
    ELSE DescendsFrom(BlockOfHash(hash).previous_block_hash, tip)

\* The accepted blocks above the finalized tip, and those with no accepted
\* child.
Candidates ==
    { h \in accepted : h # FinalizedTipHash(db)
                       /\ DescendsFrom(h, FinalizedTipHash(db)) }
Leaves ==
    { h \in Candidates :
        \A g \in Candidates : BlockOfHash(g).previous_block_hash # h }

RECURSIVE PathWork(_, _)
\* The cumulative work of the blocks from above `tip` to `hash`.
PathWork(hash, tip) ==
    IF hash = tip THEN 0
    ELSE BlockOfHash(hash).work
         + PathWork(BlockOfHash(hash).previous_block_hash, tip)

\* The leaf with the greatest cumulative work, and the greatest hash among
\* those of equal work: it depends on the set of accepted blocks only.
HeaviestLeaf ==
    CHOOSE h \in Leaves : \A g \in Leaves :
        \/ PathWork(h, FinalizedTipHash(db)) > PathWork(g, FinalizedTipHash(db))
        \/ /\ PathWork(h, FinalizedTipHash(db)) = PathWork(g, FinalizedTipHash(db))
           /\ h >= g

(***************************************************************************)
(* C16: best_chain() returns the tracked chain with the greatest           *)
(* cumulative work, whatever the order the blocks arrived in: its tip is   *)
(* the heaviest leaf of the tree the accepted blocks form above the        *)
(* finalized tip, a chain of less work is never returned, and among chains *)
(* of equal work the one with the greatest tip hash is returned.           *)
(***************************************************************************)
C16_BestChainHasMostWork ==
    IsSome(FinalizedTipHeight(db)) =>
        /\ { ChainTip(c).hash : c \in chain_set } = Leaves
        /\ \A c \in chain_set :
             c.work = PathWork(ChainTip(c).hash, FinalizedTipHash(db))
        /\ chain_set # {} =>
             /\ ChainTip(BestChain(chain_set)).hash = HeaviestLeaf
             /\ \A c \in chain_set : c.work <= BestChain(chain_set).work

\* A chain of branch 2 with two blocks has more work than a chain of branch
\* 3 with two blocks and a greater tip hash, and is the best chain.
C16_Witness ==
    /\ \E c, d \in chain_set :
         /\ ChainTip(c).hash = BlockHash(2, 2)
         /\ ChainTip(d).hash = BlockHash(3, 2)
         /\ c.work > d.work
         /\ c = BestChain(chain_set)
    /\ \E c, d \in chain_set : c # d /\ c.work = d.work

(***************************************************************************)
(* C17: after N blocks of a single chain were committed, with N above the  *)
(* depth D, the finalized state holds genesis and the N - D oldest blocks  *)
(* in order and the best chain holds the D newest in order; and the best   *)
(* chain is never longer than D once a CommitBlock request has completed.  *)
(***************************************************************************)
C17_FinalizedUpToDepth ==
    /\ chain_set # {} => Len(BestChain(chain_set).blocks) <= ReorgDepth
    /\ (SingleChain /\ Cardinality(accepted) > ReorgDepth) =>
         LET n == Cardinality(accepted)
         IN /\ accepted = { BlockHash(1, h) : h \in 1..n }
            /\ FinalizedTipHeight(db) = Some(n - ReorgDepth)
            /\ \A h \in 1..(n - ReorgDepth) :
                 db["block_by_height"][h] = SentBlock(1, h)
            /\ BestChain(chain_set).blocks =
                 [i \in 1..ReorgDepth |-> SentBlock(1, n - ReorgDepth + i)]

\* Every block of branch 1 was committed.
C17_Witness ==
    /\ SingleChain
    /\ Cardinality(accepted) = MaxBlockHeight
    /\ FinalizedTipHeight(db) = Some(MaxBlockHeight - ReorgDepth)
    /\ Len(BestChain(chain_set).blocks) = ReorgDepth

\* The chains the latest request left before its finalization, by whether
\* their root is the block it finalized first.
WithFinalizedRoot ==
    { c \in last.chains_committed : ChainRoot(c).hash = last.finalized[1].hash }
WithOtherRoot == last.chains_committed \ WithFinalizedRoot

(***************************************************************************)
(* C18: every tracked chain extends the finalized tip, so a chain dropped  *)
(* at a finalization is never tracked again; and when a request finalizes  *)
(* the best chain's root, the chains with another root are dropped and the *)
(* chains with that root are kept without it.                              *)
(***************************************************************************)
C18_PruningKeepsCompatibleChains ==
    /\ \A c \in chain_set :
         /\ c.blocks # << >>
         /\ ChainRoot(c).previous_block_hash = FinalizedTipHash(db)
    /\ (last.kind = "commit_block" /\ Len(last.finalized) = 1) =>
         /\ FinalizedTipHash(db) = last.finalized[1].hash
         /\ last.finalized[1] = ChainRoot(BestChain(last.chains_committed))
         /\ \A c \in WithOtherRoot : \A d \in chain_set :
              ChainHashes(c) \cap ChainHashes(d) = {}
         /\ { d.blocks : d \in chain_set } =
              { Tail(c.blocks) : c \in WithFinalizedRoot } \ {<< >>}
         /\ \A c \in WithFinalizedRoot : \A d \in chain_set :
              d.blocks = Tail(c.blocks) => d = PopRoot(c)

\* A finalization dropped a chain of two blocks with another root and kept
\* a fork of the best chain without their common root.
C18_Witness ==
    /\ last.kind = "commit_block"
    /\ Len(last.finalized) = 1
    /\ \E c \in WithOtherRoot : Len(c.blocks) = 2
    /\ \E c \in WithFinalizedRoot :
         /\ c # BestChain(last.chains_committed)
         /\ PopRoot(c) \in chain_set

\* The latest request committed a block to the non-finalized state.
Committed == last.kind = "commit_block" /\ last.result = "ok"

\* The parent of the block of the latest request, and the chain the request
\* built for the block.
LastParent == BlockOfHash(last.hash).previous_block_hash
LastChain == CHOOSE c \in last.chains_committed : ChainTip(c).hash = last.hash

\* What a chain answers for every index: its blocks, its created and spent
\* outputs, its nullifiers, trees, anchors and value pool.
ChainView(c) ==
    [blocks |-> c.blocks, created |-> c.created, spent |-> c.spent,
     nullifiers |-> c.nullifiers, trees |-> c.trees, roots |-> c.roots,
     history_tree |-> c.history_tree, value_pool |-> c.value_pool,
     work |-> c.work]

Reorg ==
    /\ Committed
    /\ last.chains_before # {}
    /\ ChainTip(BestChain(last.chains_before)).hash # LastParent
    /\ ChainTip(BestChain(last.chains_committed)).hash = last.hash

IsPrefix(short, long) ==
    /\ Len(short) <= Len(long)
    /\ \A i \in 1..Len(short) : short[i] = long[i]

HashLength == 2

\* The digits hex::encode writes, and the upper case ones hex decoding also
\* accepts.
HexLower ==
    <<"0", "1", "2", "3", "4", "5", "6", "7", "8", "9",
      "a", "b", "c", "d", "e", "f">>
HexUpper ==
    <<"0", "1", "2", "3", "4", "5", "6", "7", "8", "9",
      "A", "B", "C", "D", "E", "F">>

\* The value of a hex digit, None for any other character.
HexValue(ch) ==
    IF \E i \in 1..16 : HexLower[i] = ch
    THEN Some((CHOOSE i \in 1..16 : HexLower[i] = ch) - 1)
    ELSE IF \E i \in 1..16 : HexUpper[i] = ch
    THEN Some((CHOOSE i \in 1..16 : HexUpper[i] = ch) - 1)
    ELSE None

\* hex::encode: two lower case digits per byte.
HexEncode(bytes) ==
    [i \in 1..(2 * Len(bytes)) |->
        IF i % 2 = 1 THEN HexLower[(bytes[(i + 1) \div 2] \div 16) + 1]
        ELSE HexLower[(bytes[i \div 2] % 16) + 1]]

\* hex::decode_to_slice into a slice of `length` bytes: an error for a
\* string of odd length, of another length than two digits per byte, or
\* with a character that is no hex digit.
HexDecodeToSlice(string, length) ==
    IF Len(string) % 2 = 1 THEN Fail("OddLength")
    ELSE IF Len(string) # 2 * length THEN Fail("InvalidStringLength")
    ELSE IF \E i \in 1..Len(string) : ~IsSome(HexValue(string[i]))
    THEN Fail("InvalidHexCharacter")
    ELSE Ok([i \in 1..length |->
               Unwrap(HexValue(string[2 * i - 1])) * 16
               + Unwrap(HexValue(string[2 * i]))])

\* <[u8]>::reverse
ReverseBytes(bytes) == [i \in 1..Len(bytes) |-> bytes[Len(bytes) + 1 - i]]

\* A variant of Display that writes the bytes in the order they are stored.
HashDisplayStored(hash) == HexEncode(hash)

\* impl fmt::Display for Hash
HashDisplay(hash) == HexEncode(ReverseBytes(hash))

\* impl fmt::Debug for Hash: a tuple struct with the hex string as its field.
HashDebug(hash) ==
    <<"TransactionHash(", "\"">> \o HexEncode(ReverseBytes(hash)) \o <<"\"", ")">>

\* impl FromStr for Hash
HashFromStr(string) ==
    With(HexDecodeToSlice(string, HashLength), LAMBDA decoded :
        IF ~decoded.ok THEN Fail("hex decoding error")
        ELSE Ok(ReverseBytes(decoded.value)))

\* The characters and the bytes the strings and hashes are made of: lower
\* and upper case digits, and a character that is no digit.
TextChars == {"0", "a", "F", "g"}
TextBytes == {0, 10, 175, 255}

RECURSIVE StringsOf(_)
\* The strings of `length` characters.
StringsOf(length) ==
    IF length = 0 THEN { << >> }
    ELSE { Append(s, ch) : s \in StringsOf(length - 1), ch \in TextChars }

Strings == UNION { StringsOf(n) : n \in 0..(2 * HashLength + 1) }
Hashes == [1..HashLength -> TextBytes]

textFrame == <<db, writerVars, readerVars, chain, query, codec, serviceVars,
               subsidy, run, getblock>>

\* s.parse::<Hash>(), then the hash written with {} and {:?}.
ParseThenPrint ==
    /\ text.kind = "none"
    /\ \E string \in Strings : \E parsed \in {HashFromStr(string)} :
         text' = [kind |-> "parse", string |-> string,
                  hash |-> IF parsed.ok THEN parsed.value ELSE << >>,
                  parsed |-> parsed,
                  display |-> IF parsed.ok THEN HashDisplay(parsed.value)
                              ELSE << >>,
                  debug |-> IF parsed.ok THEN HashDebug(parsed.value)
                            ELSE << >>]
    /\ UNCHANGED textFrame

\* A hash written with {} and {:?}, then the written string parsed.
PrintThenParse ==
    /\ text.kind = "none"
    /\ \E hash \in Hashes : \E display \in {HashDisplay(hash)} :
         text' = [kind |-> "print", string |-> display, hash |-> hash,
                  parsed |-> HashFromStr(display),
                  display |-> display, debug |-> HashDebug(hash)]
    /\ UNCHANGED textFrame

TextNext ==
    \/ ParseThenPrint
    \/ PrintThenParse

TextSpec == Init /\ [][TextNext]_vars

\* A string of two lower case hex digits per hash byte.
IsLowerHex(string) ==
    /\ Len(string) = 2 * HashLength
    /\ \A i \in 1..Len(string) : \E d \in 1..16 : HexLower[d] = string[i]

\* A string of two hex digits of either case per hash byte.
IsHex(string) ==
    /\ Len(string) = 2 * HashLength
    /\ \A i \in 1..Len(string) : IsSome(HexValue(string[i]))

BitLength(n) ==
    IF n = 0 THEN 0 ELSE CHOOSE k \in 1..31 : n \div 2^(k - 1) = 1

\* n / 2^bits rounded to the nearest integer, ties to even.
RoundHalfEven(n, bits) ==
    IF bits = 0 THEN n
    ELSE LET q == n \div 2^bits
             r == n % 2^bits
             half == 2^(bits - 1)
         IN IF r > half \/ (r = half /\ q % 2 = 1) THEN q + 1 ELSE q

\* n as f32, for a u32 n below 2^31.
U32AsF32(n) ==
    IF BitLength(n) <= 24 THEN [m |-> n, e |-> 0]
    ELSE [m |-> RoundHalfEven(n, BitLength(n) - 24), e |-> BitLength(n) - 24]

RECURSIVE F32DivShift(_, _, _)
\* The least k with a * 2^k / b of 24 bits.
F32DivShift(a, b, k) ==
    IF (a * 2^k) \div b >= 2^23 THEN k ELSE F32DivShift(a, b, k + 1)

\* a / b in f32 for small positive integers a < b, which is also the f32
\* nearest to the decimal fraction a / b.
F32Div(a, b) ==
    LET k == F32DivShift(a, b, 0)
        q == (a * 2^k) \div b
        r == (a * 2^k) % b
    IN [m |-> IF 2 * r > b \/ (2 * r = b /\ q % 2 = 1) THEN q + 1 ELSE q,
        e |-> 0 - k]

\* x * y in f32: the exact product of the mantissas, in two halves of 24
\* bits, rounded to 24 bits.
F32Mul(x, y) ==
    LET x1 == x.m \div 4096
        x0 == x.m % 4096
        y1 == y.m \div 4096
        y0 == y.m % 4096
        mid == x1 * y0 + x0 * y1
        low == (mid % 4096) * 4096 + x0 * y0
        lo == low % 16777216
        hi == x1 * y1 + mid \div 4096 + low \div 16777216
        n == BitLength(hi)
    IN IF hi = 0 THEN [m |-> lo, e |-> x.e + y.e]
       ELSE LET kept == hi * 2^(24 - n) + lo \div 2^n
                r == lo % 2^n
                half == 2^(n - 1)
            IN [m |-> IF r > half \/ (r = half /\ kept % 2 = 1)
                      THEN kept + 1 ELSE kept,
                e |-> x.e + y.e + n]

\* x.floor() as u32, for a result below 2^31.
F32FloorAsU32(x) ==
    IF x.e >= 0 THEN x.m * 2^x.e ELSE x.m \div 2^(0 - x.e)

(***************************************************************************)
(* The subsidy parameters: parameters/subsidy.rs.                          *)
(***************************************************************************)
COIN == 100000000
SLOW_START_INTERVAL == 20000
MAX_BLOCK_SUBSIDY ==
    F32FloorAsU32(F32Mul([m |-> 25, e |-> -1], U32AsF32(COIN)))
PRE_BLOSSOM_POW_TARGET_SPACING == 150
POST_BLOSSOM_POW_TARGET_SPACING == 75
BLOSSOM_POW_TARGET_SPACING_RATIO ==
    PRE_BLOSSOM_POW_TARGET_SPACING \div POST_BLOSSOM_POW_TARGET_SPACING
PRE_BLOSSOM_HALVING_INTERVAL == 840000
POST_BLOSSOM_HALVING_INTERVAL ==
    PRE_BLOSSOM_HALVING_INTERVAL * BLOSSOM_POW_TARGET_SPACING_RATIO
FOUNDERS_FRACTION == F32Div(1, 5)
CANOPY_ACTIVATION_HEIGHT == 1046400
LAST_FOUNDER_REWARD_HEIGHT == CANOPY_ACTIVATION_HEIGHT - 1

\* A u64 amount, as hi * COIN + lo with lo < COIN.
U64(hi, lo) == [hi |-> hi + lo \div COIN, lo |-> lo % COIN]
U64Add(a, b) == U64(a.hi + b.hi, a.lo + b.lo)
U64Div(a, d) == [hi |-> a.hi \div d, lo |-> ((a.hi % d) * COIN + a.lo) \div d]

U64LessEq(a, b) == a.hi < b.hi \/ (a.hi = b.hi /\ a.lo <= b.lo)

RECURSIVE U64Shl(_, _)
\* a * 2^n
U64Shl(a, n) == IF n = 0 THEN a ELSE U64Shl(U64Add(a, a), n - 1)

MAX_MONEY == U64(21000000, 0)

\* u32::MAX, 2^32 - 1.
U32_MAX == [hi |-> 42, lo |-> 94967295]

\* fs::mainnet
FS_DENOMINATOR == 100
FS_START_HEIGHT == 1046400
FS_END_HEIGHT == 2726400
Receivers == {"ECC", "ZF", "MG"}
Numerator(receiver) ==
    CASE receiver = "ECC" -> 7
      [] receiver = "ZF" -> 5
      [] receiver = "MG" -> 8

Networks == {"Mainnet", "Testnet"}

\* NetworkUpgrade::Blossom.activation_height
BlossomActivationHeight(network) ==
    IF network = "Mainnet" THEN Some(653600) ELSE Some(584000)

(***************************************************************************)
(* The subsidy functions: block/subsidies.rs.                              *)
(***************************************************************************)
SlowStartShift == SLOW_START_INTERVAL \div 2

SlowStartRate == MAX_BLOCK_SUBSIDY \div SLOW_START_INTERVAL

\* Some(the Blossom height) from that height on.
IsBlossomActivated(height, network) ==
    IF ~IsSome(BlossomActivationHeight(network)) THEN None
    ELSE IF height >= Unwrap(BlossomActivationHeight(network))
    THEN BlossomActivationHeight(network)
    ELSE None

\* A variant that counts every halving as before Blossom.
HalvingPreBlossom(height, network) ==
    IF height < SlowStartShift THEN 0
    ELSE F32FloorAsU32(U32AsF32(
            (height - SlowStartShift) \div PRE_BLOSSOM_HALVING_INTERVAL))

Halving(height, network) ==
    LET blossom_height == IsBlossomActivated(height, network)
    IN IF height < SlowStartShift THEN 0
       ELSE IF IsSome(blossom_height)
       THEN ((Unwrap(blossom_height) - SlowStartShift)
                * BLOSSOM_POW_TARGET_SPACING_RATIO
             + (height - Unwrap(blossom_height)))
            \div POST_BLOSSOM_HALVING_INTERVAL
       ELSE F32FloorAsU32(U32AsF32(
               (height - SlowStartShift) \div PRE_BLOSSOM_HALVING_INTERVAL))

\* A variant whose second half of the slow start pays for `height`, not
\* for `height + 1`.
BlockSubsidyLateSlowStart(height, network) ==
    IF height < SlowStartShift THEN SlowStartRate * height
    ELSE IF SlowStartShift <= height /\ height < SLOW_START_INTERVAL
    THEN SlowStartRate * height
    ELSE IF ~IsSome(IsBlossomActivated(height, network))
            /\ SLOW_START_INTERVAL <= height
    THEN MAX_BLOCK_SUBSIDY \div 2^Halving(height, network)
    ELSE F32FloorAsU32(U32AsF32(
            (MAX_BLOCK_SUBSIDY \div BLOSSOM_POW_TARGET_SPACING_RATIO)
            * 2^Halving(height, network)))

\* block_subsidy, for the heights whose subsidy is below 2^31.
BlockSubsidy(height, network) ==
    IF height < SlowStartShift THEN SlowStartRate * height
    ELSE IF SlowStartShift <= height /\ height < SLOW_START_INTERVAL
    THEN SlowStartRate * (height + 1)
    ELSE IF ~IsSome(IsBlossomActivated(height, network))
            /\ SLOW_START_INTERVAL <= height
    THEN MAX_BLOCK_SUBSIDY \div 2^Halving(height, network)
    ELSE F32FloorAsU32(U32AsF32(
            (MAX_BLOCK_SUBSIDY \div BLOSSOM_POW_TARGET_SPACING_RATIO)
            * 2^Halving(height, network)))

\* An overflow check is compiled in (debug) or left out (release).
Builds == {"debug", "release"}

\* a * 2u32.pow(n) leaves 32 bits, for a positive a below 2^31: the power
\* does from n = 32 on, the product when a >= 2^(32 - n).
MulPowOverflows(a, n) == n >= 32 \/ (n >= 2 /\ a >= 2^(32 - n))

\* a * 2u32.pow(n) as a wrapping u32 gives it, written q * 2^n: the power
\* wraps to 0 from n = 32 on, and the product keeps the low 32 - n bits
\* of a.
MulPowWrapped(a, n) ==
    IF n >= 32 THEN 0 ELSE IF n < 2 THEN a ELSE a % 2^(32 - n)

\* (q * 2^n) as f32, floored, as u32: the conversion rounds q to 24 bits
\* and the cast back saturates at u32::MAX.
WideAsF32FloorAsU32(q, n) ==
    LET x == U32AsF32(q)
        amount == U64Shl(U64(0, x.m), x.e + n)
    IN IF q = 0 THEN U64(0, 0)
       ELSE IF U64LessEq(amount, U32_MAX) THEN amount ELSE U32_MAX

\* block_subsidy at any height, as a build gives it: the branches before
\* Blossom as in BlockSubsidy; after Blossom the product of
\* MAX_BLOCK_SUBSIDY / BLOSSOM_POW_TARGET_SPACING_RATIO and
\* 2u32.pow(halving), which panics on overflow in a debug build and wraps
\* in a release build.
BlockSubsidyIn(build, height, network) ==
    IF \/ height < SLOW_START_INTERVAL
       \/ ~IsSome(IsBlossomActivated(height, network))
    THEN [overflow |-> FALSE, panic |-> FALSE,
          value |-> U64(0, BlockSubsidy(height, network))]
    ELSE LET base == MAX_BLOCK_SUBSIDY \div BLOSSOM_POW_TARGET_SPACING_RATIO
             n == Halving(height, network)
             overflow == MulPowOverflows(base, n)
         IN IF overflow /\ build = "debug"
            THEN [overflow |-> TRUE, panic |-> TRUE, value |-> U64(0, 0)]
            ELSE [overflow |-> overflow, panic |-> FALSE,
                  value |-> WideAsF32FloorAsU32(MulPowWrapped(base, n), n)]

FoundersReward(height, network) ==
    IF Halving(height, network) < 1
    THEN F32FloorAsU32(F32Mul(U32AsF32(BlockSubsidy(height, network)),
                              FOUNDERS_FRACTION))
    ELSE 0

\* A variant that pays from the first block on.
FundingStreamFromGenesis(height, network, receiver) ==
    IF height < FS_END_HEIGHT
    THEN F32FloorAsU32(F32Mul(U32AsF32(BlockSubsidy(height, network)),
                              F32Div(Numerator(receiver), FS_DENOMINATOR)))
    ELSE 0

FundingStream(height, network, receiver) ==
    IF /\ height >= CANOPY_ACTIVATION_HEIGHT
       /\ FS_START_HEIGHT <= height
       /\ height < FS_END_HEIGHT
    THEN F32FloorAsU32(F32Mul(U32AsF32(BlockSubsidy(height, network)),
                              F32Div(Numerator(receiver), FS_DENOMINATOR)))
    ELSE 0

\* The sum miner_subsidy builds in funding_streams.
FundingStreams(height, network) ==
    FundingStream(height, network, "ECC")
    + FundingStream(height, network, "ZF")
    + FundingStream(height, network, "MG")

\* miner_subsidy: the u32 subtraction, which panics or wraps below zero.
MinerSubsidy(height, network) ==
    (BlockSubsidy(height, network) - FoundersReward(height, network)
     - FundingStreams(height, network))

(***************************************************************************)
(* The subsidy functions evaluated, and the loops of their tests.          *)
(***************************************************************************)
\* Heights on both sides of every branch of the functions, for either
\* network, and heights inside the slow start whose subsidy has more than
\* 24 bits.
SampleHeights ==
    {0, 1, 2, 3, 268, 269, 270, 537, 1075, 1077, 1079, 2151, 4301, 8603,
     9999, 10000, 10001, 10002, 15000, 19996, 19997, 19998, 19999, 20000,
     20001, 100000, 583999, 584000, 584001, 653599, 653600, 653601, 849999,
     850000, 850001, 1028499, 1028500, 1046399, 1046400, 1046401, 1115999,
     1116000, 1116001, 2000000, 2726399, 2726400, 2726401, 2795999, 2796000,
     2796001, 4406399, 4406400, 499999999}

\* The heights whose block subsidy is below 2^31: those before the second
\* halving.
SubsidyHeights(network) == { h \in SampleHeights : Halving(h, network) <= 1 }

subsidyFrame == <<db, writerVars, readerVars, chain, query, codec, serviceVars,
                  text, run, getblock>>

\* halving, block_subsidy, founders_reward, funding_stream and
\* miner_subsidy at one height.
EvaluateSubsidy ==
    /\ \E network \in Networks : \E height \in SubsidyHeights(network) :
         subsidy' = [NoSubsidy EXCEPT
            !.kind = "subsidy", !.network = network, !.height = height,
            !.halving = Halving(height, network),
            !.block_subsidy = BlockSubsidy(height, network),
            !.founders_reward = FoundersReward(height, network),
            !.funding_stream =
                [r \in Receivers |-> FundingStream(height, network, r)],
            !.miner_subsidy = MinerSubsidy(height, network)]
    /\ UNCHANGED subsidyFrame

\* halving, founders_reward and funding_stream at a height from the second
\* halving on, where neither of them calls block_subsidy.
EvaluateRewards ==
    /\ \E network \in Networks :
       \E height \in SampleHeights \ SubsidyHeights(network) :
         subsidy' = [NoSubsidy EXCEPT
            !.kind = "rewards", !.network = network, !.height = height,
            !.halving = Halving(height, network),
            !.founders_reward = FoundersReward(height, network),
            !.funding_stream =
                [r \in Receivers |-> FundingStream(height, network, r)]]
    /\ UNCHANGED subsidyFrame

\* The heights up to the first after the founders' reward at which halving
\* is not 0, as test_halving's two assertions bound them.
TestHalving ==
    /\ subsidy.kind = "none"
    /\ subsidy' = [NoSubsidy EXCEPT
          !.kind = "test_halving", !.network = "Mainnet",
          !.heights = { h \in 0..(LAST_FOUNDER_REWARD_HEIGHT + 1) :
                          Halving(h, "Mainnet") # 0 }]
    /\ UNCHANGED subsidyFrame

\* block_subsidy at one height and at the height before it, in one build.
EvaluateBlockSubsidy ==
    /\ \E build \in Builds : \E network \in Networks :
       \E height \in SampleHeights :
         subsidy' = [NoSubsidy EXCEPT
            !.kind = "block_subsidy", !.build = build,
            !.network = network, !.height = height,
            !.halving = Halving(height, network),
            !.wide = BlockSubsidyIn(build, height, network),
            !.before = BlockSubsidyIn(build,
                          IF height = 0 THEN 0 ELSE height - 1, network)]
    /\ UNCHANGED subsidyFrame

(***************************************************************************)
(* is_subsidy_correct: block/check.rs. A block here is its transactions,   *)
(* each the height of its coinbase input, if it has one, and the values    *)
(* of its outputs.                                                         *)
(***************************************************************************)
\* The outputs of a coinbase transaction in the blocks checked.
MaxOutputs == 2

\* block.coinbase_height(): the height in the coinbase input of the first
\* transaction, None without a first transaction or without that input.
CoinbaseHeight(block) ==
    IF Len(block.transactions) = 0 THEN None
    ELSE block.transactions[1].coinbase_height

\* NetworkUpgrade::Canopy.activation_height
CanopyActivationHeight(network) ==
    IF network = "Mainnet" THEN Some(CANOPY_ACTIVATION_HEIGHT)
    ELSE Some(1028500)

\* The loop over the outputs: valid_founders && valid_miner. An output
\* that is the founders' share is not looked at as the miner's.
ValidOutputs(outputs, block_subsidy, miner_subsidy) ==
    /\ \E i \in 1..Len(outputs) : outputs[i] = block_subsidy \div 5
    /\ \E i \in 1..Len(outputs) :
          /\ outputs[i] # block_subsidy \div 5
          /\ outputs[i] = miner_subsidy

Panicked == [panicked |-> TRUE, returned |-> Fail("none")]
Returned(result) == [panicked |-> FALSE, returned |-> result]

IsSubsidyCorrect(block) ==
    LET height == CoinbaseHeight(block)
        network == "Mainnet"
        canopy_height == CanopyActivationHeight(network)
    IN IF ~IsSome(height) THEN Panicked
       ELSE IF Len(block.transactions) = 0
       THEN Returned(Fail("no coinbase transaction"))
       ELSE IF ~IsSome(canopy_height) THEN Returned(Fail("no canopy"))
       ELSE IF Unwrap(height) >= Unwrap(canopy_height)
       THEN Returned(Ok(Unit))
       ELSE IF /\ Unwrap(height) > 0
               /\ Unwrap(height) <= LAST_FOUNDER_REWARD_HEIGHT
               /\ ValidOutputs(block.transactions[1].outputs,
                               BlockSubsidy(Unwrap(height), "Mainnet"),
                               MinerSubsidy(Unwrap(height), "Mainnet"))
       THEN Returned(Ok(Unit))
       ELSE Returned(Fail("error in the validation"))

\* The heights of the blocks checked: genesis, the first block, heights
\* inside and after the slow start and after Blossom, the last height
\* with a founders' reward, Canopy, and a later height.
CheckHeights ==
    {0, 1, 1075, 19999, 20000, 653600, LAST_FOUNDER_REWARD_HEIGHT,
     CANOPY_ACTIVATION_HEIGHT, FS_END_HEIGHT}

\* The output values tried at a height: none, and the founders' share and
\* the miner's subsidy, of that height if it is before Canopy and of
\* height 1 otherwise.
OutputValues(height) ==
    {0} \cup (IF height < CANOPY_ACTIVATION_HEIGHT
              THEN {BlockSubsidy(height, "Mainnet") \div 5,
                    MinerSubsidy(height, "Mainnet")}
              ELSE {12500, 50000})

\* The blocks checked: without transactions, or of one transaction, with
\* or without a coinbase input.
CheckBlocks ==
    {[transactions |-> << >>]}
    \cup UNION { UNION { { [transactions |->
                             <<[coinbase_height |-> coinbase_height,
                                outputs |-> outputs]>>] :
                           coinbase_height \in {None, Some(height)} } :
                         outputs \in UNION { [1..n -> OutputValues(height)] :
                                             n \in 0..MaxOutputs } } :
                 height \in CheckHeights }

\* is_subsidy_correct of one block.
CheckSubsidy ==
    /\ \E block \in CheckBlocks :
         subsidy' = [NoSubsidy EXCEPT
            !.kind = "check", !.block = block,
            !.result = IsSubsidyCorrect(block)]
    /\ UNCHANGED subsidyFrame

SubsidyCheckSpec == Init /\ [][CheckSubsidy]_vars

SubsidyNext ==
    \/ EvaluateSubsidy
    \/ EvaluateRewards
    \/ TestHalving
    \/ EvaluateBlockSubsidy

SubsidySpec == Init /\ [][SubsidyNext]_vars

\* The iterations of test_block_subsidy's loop taken in one step.
LoopBatch == 8192

RECURSIVE FoundersShares(_, _)
\* The total of block_subsidy / 5 over the heights from..to, for up to
\* eight heights, whose total is below 2^31.
FoundersShares(from, to) ==
    IF from = to THEN BlockSubsidy(from, "Mainnet") \div 5
    ELSE FoundersShares(from, (from + to) \div 2)
         + FoundersShares((from + to) \div 2 + 1, to)

RECURSIVE FoundersTotal(_, _)
\* The u64 total of block_subsidy / 5 over the heights from..to.
FoundersTotal(from, to) ==
    IF to - from < 8 THEN U64(0, FoundersShares(from, to))
    ELSE U64Add(FoundersTotal(from, (from + to) \div 2),
                FoundersTotal((from + to) \div 2 + 1, to))

\* test_block_subsidy: the next iterations of the loop over
\* 1..CANOPY_ACTIVATION_HEIGHT; `height` is the next n_height.
TestBlockSubsidy ==
    /\ subsidy.kind \in {"none", "test_block_subsidy"}
    /\ \E from \in {IF subsidy.kind = "none" THEN 1 ELSE subsidy.height} :
       \E to \in {IF from + LoopBatch < CANOPY_ACTIVATION_HEIGHT
                  THEN from + LoopBatch - 1
                  ELSE CANOPY_ACTIVATION_HEIGHT - 1} :
         /\ from < CANOPY_ACTIVATION_HEIGHT
         /\ subsidy' = [NoSubsidy EXCEPT
               !.kind = "test_block_subsidy", !.network = "Mainnet",
               !.height = to + 1,
               !.total = U64Add(subsidy.total, FoundersTotal(from, to))]
    /\ UNCHANGED subsidyFrame

SubsidyTestSpec == Init /\ [][TestBlockSubsidy]_vars

(***************************************************************************)
(* C22: on Mainnet halving is 0 at every height up to the last founders'   *)
(* reward height, 1,046,399, and 1 at height 1,046,400, through the slow   *)
(* start, before Blossom and after it.                                     *)
(***************************************************************************)
C22_FirstHalvingEndsFoundersReward ==
    /\ subsidy.kind = "test_halving" =>
          subsidy.heights = {LAST_FOUNDER_REWARD_HEIGHT + 1}
    /\ (subsidy.kind = "subsidy" /\ subsidy.network = "Mainnet") =>
          /\ subsidy.height <= LAST_FOUNDER_REWARD_HEIGHT => subsidy.halving = 0
          /\ subsidy.height = LAST_FOUNDER_REWARD_HEIGHT + 1 =>
                subsidy.halving = 1
    /\ LAST_FOUNDER_REWARD_HEIGHT = 1046399

\* The loop over the heights 0..1,046,400 ran and found a halving at the
\* first height after the founders' reward.
C22_Witness ==
    /\ subsidy.kind = "test_halving"
    /\ LAST_FOUNDER_REWARD_HEIGHT + 1 \in subsidy.heights

(***************************************************************************)
(* C23: on Mainnet the sum of block_subsidy(h) / 5 over the heights        *)
(* 1 <= h < 1,046,400 is MAX_MONEY / 10, 210,000,000,000,000 zatoshi.      *)
(***************************************************************************)
C23_FoundersShareIsTenth ==
    (subsidy.kind = "test_block_subsidy"
     /\ subsidy.height = CANOPY_ACTIVATION_HEIGHT) =>
        /\ subsidy.total = U64Div(MAX_MONEY, 10)
        /\ subsidy.total = [hi |-> 2100000, lo |-> 0]
        /\ COIN = 100000000

\* The loop of test_block_subsidy ran.
C23_Witness ==
    /\ subsidy.kind = "test_block_subsidy"
    /\ subsidy.height = CANOPY_ACTIVATION_HEIGHT
    /\ subsidy.total.hi > 0

\* floor(amount * numerator / denominator), without leaving 31 bits.
FloorOfShare(amount, numerator, denominator) ==
    (amount \div denominator) * numerator
    + ((amount % denominator) * numerator) \div denominator

\* The latest evaluation gave each function's value at one height.
Evaluated == subsidy.kind \in {"subsidy", "rewards"}

(***************************************************************************)
(* C24: miner_subsidy(h) is block_subsidy(h) less founders_reward(h) less  *)
(* the three funding streams, and the subtraction never goes below zero;   *)
(* founders_reward(h) is a fifth of block_subsidy(h) while halving(h) < 1  *)
(* and 0 afterwards; on Mainnet miner_subsidy is 0, 50,000, 500,000,000    *)
(* and 1,000,000,000 and founders_reward 0, 12,500, 125,000,000 and 0 at   *)
(* the heights 0, 1, 1,046,399 and 1,046,400.                              *)
(***************************************************************************)
C24_MinerSubsidyIsRemainder ==
    subsidy.kind = "subsidy" =>
        /\ subsidy.block_subsidy - subsidy.founders_reward >= 0
        /\ subsidy.block_subsidy - subsidy.founders_reward
             - (subsidy.funding_stream.ECC + subsidy.funding_stream.ZF
                + subsidy.funding_stream.MG) >= 0
        /\ subsidy.miner_subsidy =
             subsidy.block_subsidy - subsidy.founders_reward
             - (subsidy.funding_stream.ECC + subsidy.funding_stream.ZF
                + subsidy.funding_stream.MG)
        /\ subsidy.halving < 1 =>
             subsidy.founders_reward = subsidy.block_subsidy \div 5
        /\ subsidy.halving >= 1 => subsidy.founders_reward = 0
        /\ subsidy.network = "Mainnet" =>
             /\ subsidy.height = 0 =>
                  subsidy.miner_subsidy = 0 /\ subsidy.founders_reward = 0
             /\ subsidy.height = 1 =>
                  /\ subsidy.miner_subsidy = 50000
                  /\ subsidy.founders_reward = 12500
             /\ subsidy.height = 1046399 =>
                  /\ subsidy.miner_subsidy = 500000000
                  /\ subsidy.founders_reward = 125000000
             /\ subsidy.height = 1046400 =>
                  /\ subsidy.miner_subsidy = 1000000000
                  /\ subsidy.founders_reward = 0

(***************************************************************************)
(* C25: on Mainnet funding_stream is 0 at every height below 1,046,400 and *)
(* at every height from 2,726,400 on, and in between it is                 *)
(* floor(block_subsidy * numerator / 100) with the numerators 7, 5 and 8   *)
(* for ECC, ZF and MG: 87,500,000, 62,500,000 and 100,000,000 at height    *)
(* 1,046,400.                                                              *)
(***************************************************************************)
C25_FundingStreamWindow ==
    (Evaluated /\ subsidy.network = "Mainnet") =>
        /\ (subsidy.height < 1046400 \/ subsidy.height >= 2726400) =>
              \A r \in Receivers : subsidy.funding_stream[r] = 0
        /\ (subsidy.height >= 1046400 /\ subsidy.height < 2726400) =>
              /\ subsidy.kind = "subsidy"
              /\ subsidy.funding_stream.ECC =
                   FloorOfShare(subsidy.block_subsidy, 7, 100)
              /\ subsidy.funding_stream.ZF =
                   FloorOfShare(subsidy.block_subsidy, 5, 100)
              /\ subsidy.funding_stream.MG =
                   FloorOfShare(subsidy.block_subsidy, 8, 100)
        /\ subsidy.height = 1046400 =>
              subsidy.funding_stream =
                 [ECC |-> 87500000, ZF |-> 62500000, MG |-> 100000000]

\* The streams were evaluated on Mainnet at the last height that pays them.
C25_Witness ==
    /\ subsidy.kind = "subsidy"
    /\ subsidy.network = "Mainnet"
    /\ subsidy.height = FS_END_HEIGHT - 1
    /\ subsidy.funding_stream.MG = 100000000

(***************************************************************************)
(* C30: at no height and on neither network are a founders' reward and a   *)
(* funding stream both paid: founders_reward(h, network) > 0 implies       *)
(* funding_stream(h, network, r) = 0 for every receiver r.                 *)
(***************************************************************************)
C30_FoundersRewardExcludesFundingStream ==
    (Evaluated /\ subsidy.founders_reward > 0) =>
        \A r \in Receivers : subsidy.funding_stream[r] = 0

(***************************************************************************)
(* C26: in every finalized state that has a tip, the state right after the *)
(* genesis batch included, the root of each pool's tip note commitment     *)
(* tree is in that pool's anchor set; no commit removes an anchor; and     *)
(* each sprout anchor maps to a tree whose root is that anchor.            *)
(***************************************************************************)
C26_TipRootsAreAnchors ==
    /\ IsSome(FinalizedTipHeight(db)) =>
          \A p \in Pools :
              /\ NoteCommitmentTree(db, p).ok
              /\ ContainsAnchor(db, p, Root(NoteCommitmentTree(db, p).value))
    /\ \A p \in Pools :
          DOMAIN wbefore[AnchorCf(p)] \subseteq DOMAIN db[AnchorCf(p)]
    /\ \A anchor \in DOMAIN db[AnchorCf("sprout")] :
          /\ IsSome(SproutNoteCommitmentTreeByAnchor(db, anchor))
          /\ Root(Unwrap(SproutNoteCommitmentTreeByAnchor(db, anchor))) = anchor

(***************************************************************************)
(* C27: last_n_block_headers returns None exactly when the height is at    *)
(* most N = POW_AVERAGING_WINDOW + POW_MEDIAN_BLOCK_SPAN, and otherwise a  *)
(* list of exactly N headers, the newest first, with or without a best     *)
(* chain and however the N blocks are split between the chain and the      *)
(* finalized database.                                                     *)
(***************************************************************************)
C27_ExactlyNHeadersNewestFirst ==
    query.kind = "last_n_block_headers" =>
        /\ ~IsSome(query.result) <=> query.height <= NEEDED_CONTEXT_BLOCKS
        /\ IsSome(query.result) =>
             /\ Len(Unwrap(query.result)) = NEEDED_CONTEXT_BLOCKS
             /\ \A i \in 1..Len(Unwrap(query.result)) :
                  Unwrap(query.result)[i] =
                     MakeBlock(query.height - (i - 1),
                               TransparentShape(TRUE)).header

(***************************************************************************)
(* RuntimeRun::run (zebrad/src/components/tokio.rs): block_on of a biased  *)
(* select over the shutdown future and the root future, then the runtime's *)
(* shutdown, then the match on the result. A poll of the select polls its  *)
(* branches one after the other; signals arrive at any time in between.    *)
(***************************************************************************)
\* Polls counted apart; later ones count as the last.
MaxPolls == 3

Platforms == {"unix", "other"}

\* imp::shutdown: SIGINT and SIGTERM on unix, Ctrl-C elsewhere.
SignalsOf(platform) ==
    IF platform = "unix" THEN {"SIGINT", "SIGTERM"} ELSE {"CTRL_C"}

\* A select that polls its branches in any order.
Unbiased == FALSE

\* `biased;`: the select polls its branches in the order they are written.
Biased == TRUE

\* A match that shuts down by force whatever the result.
ShutdownAlwaysForced(result) == "forced"

\* The match on the result of block_on.
ShutdownFor(result) == IF result = "ok" THEN "normal" ELSE "forced"

runFrame == <<db, writerVars, readerVars, chain, query, codec, serviceVars,
              text, subsidy, getblock>>

\* run is called with a root future that will return Ok or an error.
CallRun ==
    /\ run.pc = "idle"
    /\ \E platform \in Platforms : \E output \in {"ok", "err"} :
         run' = [run EXCEPT !.pc = "polling", !.platform = platform,
                            !.root_output = output, !.polls = 1]
    /\ UNCHANGED runFrame

\* The process receives a shutdown signal while the select is pending or
\* being polled, with the handlers registered.
ReceiveSignal ==
    /\ run.pc \in {"polling", "parked"}
    /\ run.registered
    /\ \E sig \in SignalsOf(run.platform) \ run.received :
         run' = [run EXCEPT !.received = @ \cup {sig}]
    /\ UNCHANGED runFrame

\* The state after a branch was polled and is pending.
Pending(r, branch) ==
    [r EXCEPT !.polled = @ \cup {branch},
              !.pc = IF r.polled \cup {branch} = {"shutdown", "root"}
                     THEN "parked" ELSE "polling"]

\* The select polls shutdown(): the first poll registers the handlers; with
\* a signal received, sig sets the shutting-down flag and the branch
\* completes with Ok(()), which drops the root future.
PollShutdown ==
    /\ run.pc = "polling"
    /\ "shutdown" \notin run.polled
    /\ IF run.received # {}
       THEN \E sig \in run.received :
              run' = [run EXCEPT !.at_shutdown_poll = run.received,
                                 !.taken = sig, !.shutting_down = TRUE,
                                 !.branch = "shutdown", !.result = "ok",
                                 !.pc = "shutdown_timeout"]
       ELSE run' = [Pending(run, "shutdown") EXCEPT
                       !.registered = TRUE, !.at_shutdown_poll = {}]
    /\ UNCHANGED runFrame

\* The select polls the root future, after shutdown() when it is biased:
\* the future completes with its result, or is pending.
PollRoot ==
    /\ run.pc = "polling"
    /\ "root" \notin run.polled
    /\ Biased => "shutdown" \in run.polled
    /\ \/ run' = [run EXCEPT !.branch = "root", !.result = run.root_output,
                             !.pc = "shutdown_timeout"]
       \/ run' = Pending(run, "root")
    /\ UNCHANGED runFrame

\* The pending select is woken, by the root future or by a signal, and
\* polled again.
Wake ==
    /\ run.pc = "parked"
    /\ run' = [run EXCEPT !.pc = "polling", !.polled = {},
                          !.at_poll_start = run.received,
                          !.polls = IF @ < MaxPolls THEN @ + 1 ELSE @]
    /\ UNCHANGED runFrame

\* self.shutdown_timeout(TOKIO_SHUTDOWN_TIMEOUT)
ShutdownTimeout ==
    /\ run.pc = "shutdown_timeout"
    /\ run' = [run EXCEPT !.runtime = "shut_down", !.pc = "match"]
    /\ UNCHANGED runFrame

\* match result: Ok logs; Err requests Shutdown::Forced.
MatchResult ==
    /\ run.pc = "match"
    /\ run' = [run EXCEPT !.shutdown = ShutdownFor(run.result), !.pc = "done"]
    /\ UNCHANGED runFrame

RunNext ==
    \/ CallRun
    \/ ReceiveSignal
    \/ PollShutdown
    \/ PollRoot
    \/ Wake
    \/ ShutdownTimeout
    \/ MatchResult

\* The executor polls a woken future, a future that is ready to make
\* progress wakes, and the runtime's shutdown returns within its timeout.
RunSpec ==
    /\ Init
    /\ [][RunNext]_vars
    /\ WF_vars(PollShutdown)
    /\ WF_vars(PollRoot)
    /\ WF_vars(Wake)
    /\ WF_vars(ShutdownTimeout)
    /\ WF_vars(MatchResult)

\* The original statement of C28: with a signal received by the time the
\* select completes, it is the shutdown branch that completes it.
C28_SignalAlwaysWins ==
    run.received # {} => run.branch # "root"

\* What holds in every state of a run: a select that takes the root branch
\* had no signal when that poll began or when it polled the shutdown
\* future, and one that takes the shutdown branch returns Ok whatever the
\* root future would have returned, and ends in a normal shutdown.
ShutdownPolledFirst ==
    /\ run.branch = "root" =>
          /\ run.at_poll_start = {}
          /\ run.at_shutdown_poll = {}
          /\ "shutdown" \in run.polled
    /\ run.branch = "shutdown" =>
          /\ run.taken \in run.received
          /\ run.result = "ok"
          /\ run.shutdown # "forced"
          /\ run.pc = "done" => run.shutdown = "normal"

(***************************************************************************)
(* C28: the select polls the shutdown future first at every poll: when a   *)
(* signal has been received by then, run takes the shutdown branch, drops  *)
(* the root future without using its result and ends with a normal         *)
(* shutdown; a signal that arrives while the root future is being polled   *)
(* loses only to a root future that completes in that same poll; and once  *)
(* a signal has been received the run ends, however often the root future  *)
(* is ready to make progress.                                              *)
(***************************************************************************)
C28_ShutdownHasPriority ==
    /\ []ShutdownPolledFirst
    /\ (run.received # {}) ~> (run.pc = "done")

\* With both signals received and a root future that would return an
\* error, after a poll that left both branches pending, the run ended by
\* the shutdown branch.
C28_Witness ==
    /\ run.pc = "done"
    /\ run.branch = "shutdown"
    /\ run.received = {"SIGINT", "SIGTERM"}
    /\ run.root_output = "err"
    /\ run.polls > 1
    /\ run.shutdown = "normal"

(***************************************************************************)
(* C29: run requests a forced shutdown exactly when the root future        *)
(* completed with an error before a shutdown signal was taken, and not     *)
(* when it returned Ok or a signal won; the runtime is shut down before    *)
(* the outcome is acted on; and on the signal path the shutting-down flag  *)
(* is set before the runtime's shutdown begins.                            *)
(***************************************************************************)
C29_ForcedOnlyOnRootError ==
    /\ run.shutdown = "forced" =>
          /\ run.branch = "root"
          /\ run.result = "err"
          /\ run.taken = "none"
    /\ run.pc = "done" =>
          /\ run.shutdown = "forced" <=>
                (run.branch = "root" /\ run.root_output = "err")
          /\ run.shutdown = "normal" <=>
                (run.branch = "shutdown" \/ run.root_output = "ok")
    /\ run.shutdown # "none" => run.runtime = "shut_down"
    /\ run.runtime = "shut_down" => run.pc \in {"match", "done"}
    /\ (run.branch = "shutdown"
        /\ run.pc \in {"shutdown_timeout", "match", "done"}) =>
          run.shutting_down
    /\ run.shutting_down => run.branch = "shutdown"

\* The root future returned an error with no signal received and run
\* requested a forced shutdown, the runtime being shut down.
C29_Witness ==
    /\ run.pc = "done"
    /\ run.shutdown = "forced"
    /\ run.received = {}
    /\ run.runtime = "shut_down"

(***************************************************************************)
(* C31: at every height and on every network block_subsidy is computed     *)
(* without overflowing 32 bits and is at most MAX_BLOCK_SUBSIDY, and from  *)
(* the end of the slow start on it is never more than at the height        *)
(* before.                                                                 *)
(***************************************************************************)
C31_BlockSubsidyBoundedAndDecreasing ==
    subsidy.kind = "block_subsidy" =>
        /\ ~subsidy.wide.overflow
        /\ ~subsidy.wide.panic
        /\ U64LessEq(subsidy.wide.value, U64(0, MAX_BLOCK_SUBSIDY))
        /\ subsidy.height > SLOW_START_INTERVAL =>
             U64LessEq(subsidy.wide.value, subsidy.before.value)

\* What C32 states of a block that has a coinbase height.
SubsidyCheckOf(block, result) ==
    LET height == Unwrap(CoinbaseHeight(block))
        outputs == block.transactions[1].outputs
    IN /\ ~result.panicked
       /\ height >= CANOPY_ACTIVATION_HEIGHT => result.returned.ok
       /\ (0 < height /\ height <= LAST_FOUNDER_REWARD_HEIGHT) =>
            (result.returned.ok <=>
               /\ \E i \in 1..Len(outputs) :
                    outputs[i] = BlockSubsidy(height, "Mainnet") \div 5
               /\ \E i \in 1..Len(outputs) :
                    outputs[i] = MinerSubsidy(height, "Mainnet"))
       /\ height = 0 => ~result.returned.ok

(***************************************************************************)
(* C32: is_subsidy_correct returns Ok for every block at or above the      *)
(* Mainnet Canopy height whatever its outputs; for a block with            *)
(* 0 < height <= the last founders' reward height it returns Ok exactly    *)
(* when an output of the coinbase transaction is block_subsidy(height) / 5 *)
(* and an output is miner_subsidy(height); for every other block, genesis  *)
(* included, it returns an error.                                          *)
(***************************************************************************)
C32_SubsidyCheckReturns ==
    subsidy.kind = "check" =>
        IF IsSome(CoinbaseHeight(subsidy.block))
        THEN SubsidyCheckOf(subsidy.block, subsidy.result)
        ELSE ~subsidy.result.panicked /\ ~subsidy.result.returned.ok

(***************************************************************************)
(* RpcImpl::get_block (zebra-rpc/src/methods.rs): one request to the state *)
(* service for the block at a height, and the match on its answer.         *)
(***************************************************************************)
\* The heights asked for.
MaxRpcHeight == 2

\* The state service's answer to Request::Block(Height(height)): an error
\* when the service fails, Response::Block with the block the finalized
\* state holds at that height, or with None.
StateBlock(database, height, fails) ==
    IF fails THEN Fail("service error")
    ELSE Ok([response |-> "Block",
             block |-> ZsGet(database, "block_by_height", height)])

\* The body of get_block's future: res.unwrap() panics on an error, and
\* the match is unreachable!() on anything but Response::Block(Some(block)).
GetBlockOutcome(response) ==
    IF ~response.ok THEN Panicked
    ELSE IF response.value.response = "Block" /\ IsSome(response.value.block)
    THEN Returned(Ok([data |-> Unwrap(response.value.block).hash]))
    ELSE Panicked

\* getblock is called for a height, with the state service failing or not.
GetBlock ==
    /\ \E height \in 0..MaxRpcHeight : \E fails \in BOOLEAN :
       \E response \in {StateBlock(db, height, fails)} :
         getblock' = [kind |-> "called", height |-> height,
                      response |-> response,
                      outcome |-> GetBlockOutcome(response)]
    /\ UNCHANGED <<db, writerVars, readerVars, chain, query, codec,
                   serviceVars, text, subsidy, run>>

RpcNext ==
    \/ CommitFinalized
    \/ GetBlock

RpcSpec == Init /\ [][RpcNext]_vars

(***************************************************************************)
(* C33: getblock answers every request with a block or with an RPC error:  *)
(* when the state service returns an error, or answers that it has no      *)
(* block at the height, the caller gets an error result and the handler    *)
(* does not panic.                                                         *)
(***************************************************************************)
C33_GetBlockNeverPanics ==
    getblock.kind = "called" =>
        /\ ~getblock.outcome.panicked
        /\ getblock.outcome.returned.ok <=>
              (getblock.response.ok /\ IsSome(getblock.response.value.block))

====
